---------------------------- MODULE Spec2Model ----------------------------
(***************************************************************************)
(* A model of the sd_tagfilter rule engine (src/sd_tagfilter).             *)
(*                                                                         *)
(* Text is modelled as a sequence of one-character strings, so that a tag  *)
(* "a_b" is <<"a","_","b">>; every string operation of the code (strip,    *)
(* lower, replace, split, re.escape, the regex matcher) is computed on     *)
(* these sequences.  A rule is a record with the fields of FilterRule /    *)
(* GroupFilterRule; a filter is the rule it was built from together with   *)
(* the position at which that rule object was supplied to the engine.      *)
(***************************************************************************)
EXTENDS Integers, Sequences, FiniteSets, TLC

VARIABLES
    pc,          \* "new": no engine yet; "ready": constructed; "failed": the constructor raised
    variant,     \* "standard" | "optimized" | "memory_efficient" (create_engine's engine_type)
    rules,       \* self.rules: the rule values, in list order
    ruleIds,     \* for each element of rules, the ordinal at which that object was supplied
    filters,     \* self.filters: sequence of [rule, id]
    batch_size,  \* OptimizedTagFilterEngine.batch_size
    stats,       \* OptimizedTagFilterEngine.stats: [total_processed, total_filtered]
    last,        \* the last call made on the engine and what it returned or raised
    hist         \* bookkeeping of the calls made so far (not program state)

vars == <<pc, variant, rules, ruleIds, filters, batch_size, stats, last, hist>>

-----------------------------------------------------------------------------
(* Bounds of the model.                                                    *)

\* longest rule list handed to the constructor
MaxRules == 2
\* most rule objects ever supplied to one engine (constructor and add_rule)
MaxSupplied == 3
\* longest tag list handed to a filtering call
MaxTags == 2
\* most tags processed by one optimized engine between two resets
MaxProcessed == 4
MaxBatches == 2
MaxStream == 3
MaxPatterns == 2

-----------------------------------------------------------------------------
(* Sequences of characters.                                                *)

\* body(v) for the value v of expr.  TLC evaluates a LET definition and an
\* operator argument again at each use; a bound variable holds a value, so
\* this evaluates expr once.
Bind(expr, body(_)) == CHOOSE r \in {body(v) : v \in {expr}} : TRUE

\* str.strip(): the characters Python treats as whitespace (those of the model's alphabet)
Whitespace == {" ", "\t", "\n"}

RECURSIVE LStrip(_)
LStrip(s) ==
    IF s # <<>> /\ Head(s) \in Whitespace THEN LStrip(Tail(s)) ELSE s

RECURSIVE RStrip(_)
RStrip(s) ==
    IF s # <<>> /\ s[Len(s)] \in Whitespace THEN RStrip(SubSeq(s, 1, Len(s) - 1)) ELSE s

strip(s) == RStrip(LStrip(s))

\* str.lower() on one character
LowerChar(c) ==
    CASE c = "A" -> "a"
      [] c = "B" -> "b"
      [] c = "C" -> "c"
      [] c = "X" -> "x"
      [] OTHER -> c

lower(s) == [i \in 1..Len(s) |-> LowerChar(s[i])]

\* s starts with p at position i (1-based)
StartsAt(s, p, i) ==
    /\ i >= 1
    /\ i + Len(p) - 1 <= Len(s)
    /\ SubSeq(s, i, i + Len(p) - 1) = p

\* Python's `p in s`
Contains(p, s) == \E i \in 1..(Len(s) + 1) : StartsAt(s, p, i)

\* str.replace(old, new) for a non-empty old: leftmost, non-overlapping
RECURSIVE ReplaceFrom(_, _, _, _)
ReplaceFrom(s, old, new, i) ==
    IF i > Len(s) THEN <<>>
    ELSE IF StartsAt(s, old, i) THEN new \o ReplaceFrom(s, old, new, i + Len(old))
    ELSE <<s[i]>> \o ReplaceFrom(s, old, new, i + 1)

replace(s, old, new) == ReplaceFrom(s, old, new, 1)

\* index of the first occurrence of p in s, 0 when there is none (str.find + 1)
FirstIndex(s, p) ==
    IF Contains(p, s)
    THEN CHOOSE i \in 1..(Len(s) + 1) :
            /\ StartsAt(s, p, i)
            /\ \A j \in 1..(i - 1) : ~StartsAt(s, p, j)
    ELSE 0

\* the case of the tag is kept
normalize_keeping_case(tag) ==
    Bind(strip(tag), LAMBDA stripped : replace(stripped, <<" ">>, <<"_">>))

normalize_tag(tag) ==
    Bind(strip(tag), LAMBDA stripped :
        Bind(lower(stripped), LAMBDA lowered : replace(lowered, <<" ">>, <<"_">>)))

-----------------------------------------------------------------------------
(* Regular expressions (Python's re, as used through PatternCache).        *)
(*                                                                         *)
(* The model compiles the subset of the syntax that the rule patterns of   *)
(* its pools use: literal characters, \c, `.`, `^`, `$`, capture groups,   *)
(* and the postfix `*` and `?` (greedy, or lazy when followed by `?`) on a *)
(* one-character atom.  A compiled pattern is a sequence of tokens         *)
(*   [t |-> "lit", c, q]   [t |-> "any", q]   [t |-> "bol"]  [t |-> "eol"] *)
(*   [t |-> "open", g]     [t |-> "close", g]                              *)
(* with q in {"one", "star", "opt", "lazystar", "lazyopt"}.                *)

ReError == [ok |-> FALSE, exc |-> "re.error"]

Quantify(tok, q) == [tok EXCEPT !.q = q]

\* re.compile's parser.  prev: "none" (nothing to repeat), "atom", "quant"
\* (a greedy quantifier was just read), "done" (no further quantifier allowed).
RECURSIVE ParseRegex(_, _, _, _, _, _)
ParseRegex(p, i, toks, open, ngroups, prev) ==
    IF i > Len(p)
    THEN IF open = <<>> THEN [ok |-> TRUE, toks |-> toks, ngroups |-> ngroups]
         ELSE ReError
    ELSE
      LET c == p[i]
          n == Len(toks)
      IN
      CASE c = "\\" ->
             IF i = Len(p) THEN ReError
             ELSE ParseRegex(p, i + 2,
                     Append(toks, [t |-> "lit", c |-> p[i + 1], q |-> "one"]),
                     open, ngroups, "atom")
        [] c = "." ->
             ParseRegex(p, i + 1, Append(toks, [t |-> "any", q |-> "one"]),
                        open, ngroups, "atom")
        [] c = "*" ->
             IF prev = "atom"
             THEN ParseRegex(p, i + 1, [toks EXCEPT ![n] = Quantify(@, "star")],
                             open, ngroups, "quant")
             ELSE ReError
        [] c = "?" ->
             IF prev = "atom"
             THEN ParseRegex(p, i + 1, [toks EXCEPT ![n] = Quantify(@, "opt")],
                             open, ngroups, "quant")
             ELSE IF prev = "quant"
             THEN ParseRegex(p, i + 1,
                     [toks EXCEPT ![n] =
                         Quantify(@, IF @.q = "star" THEN "lazystar" ELSE "lazyopt")],
                     open, ngroups, "done")
             ELSE ReError
        [] c = "(" ->
             ParseRegex(p, i + 1, Append(toks, [t |-> "open", g |-> ngroups + 1]),
                        <<ngroups + 1>> \o open, ngroups + 1, "none")
        [] c = ")" ->
             IF open = <<>> THEN ReError
             ELSE ParseRegex(p, i + 1, Append(toks, [t |-> "close", g |-> Head(open)]),
                             Tail(open), ngroups, "done")
        [] c = "^" ->
             ParseRegex(p, i + 1, Append(toks, [t |-> "bol"]), open, ngroups, "none")
        [] c = "$" ->
             ParseRegex(p, i + 1, Append(toks, [t |-> "eol"]), open, ngroups, "none")
        [] OTHER ->
             ParseRegex(p, i + 1, Append(toks, [t |-> "lit", c |-> c, q |-> "one"]),
                        open, ngroups, "atom")

\* PatternCache.get_compiled_pattern(pattern): re.compile(pattern, 0); the
\* cache only avoids recompilation and does not change the result.
get_compiled_pattern(pattern) == ParseRegex(pattern, 1, <<>>, <<>>, 0, "none")

\* one-character atom against character c
AtomMatches(tok, c) ==
    IF tok.t = "lit" THEN tok.c = c ELSE c # "\n"

\* how many consecutive characters from position i the atom matches
RECURSIVE RunLength(_, _, _)
RunLength(tok, s, i) ==
    IF i <= Len(s) /\ AtomMatches(tok, s[i]) THEN 1 + RunLength(tok, s, i + 1) ELSE 0

NoMatch == [ok |-> FALSE]

\* The backtracking matcher: the first way, in the engine's order of
\* preference, to match toks[k..] at position i of s.  caps[g] is the span
\* <<first, last + 1>> of group g, <<0, 0>> while the group has not taken part.  A match
\* must end at minEnd or later (re.sub refuses an empty match right after an
\* empty match).
RECURSIVE MatchHere(_, _, _, _, _, _)
RECURSIVE TryCounts(_, _, _, _, _, _, _, _, _)
MatchHere(toks, k, s, i, caps, minEnd) ==
    IF k > Len(toks)
    THEN IF i >= minEnd THEN [ok |-> TRUE, end |-> i, caps |-> caps] ELSE NoMatch
    ELSE
      LET tok == toks[k] IN
      CASE tok.t = "bol" ->
             IF i = 1 THEN MatchHere(toks, k + 1, s, i, caps, minEnd) ELSE NoMatch
        [] tok.t = "eol" ->
             IF i = Len(s) + 1 \/ (i = Len(s) /\ s[i] = "\n")
             THEN MatchHere(toks, k + 1, s, i, caps, minEnd) ELSE NoMatch
        [] tok.t = "open" ->
             MatchHere(toks, k + 1, s, i, [caps EXCEPT ![tok.g] = <<i, 0>>], minEnd)
        [] tok.t = "close" ->
             MatchHere(toks, k + 1, s, i, [caps EXCEPT ![tok.g] = <<@[1], i>>], minEnd)
        [] OTHER ->
             LET run == RunLength(tok, s, i) IN
             CASE tok.q = "one" ->
                    IF run >= 1 THEN MatchHere(toks, k + 1, s, i + 1, caps, minEnd) ELSE NoMatch
               [] tok.q = "star" -> TryCounts(toks, k, s, i, caps, minEnd, run, 0, -1)
               [] tok.q = "opt" ->
                    TryCounts(toks, k, s, i, caps, minEnd, IF run >= 1 THEN 1 ELSE 0, 0, -1)
               [] tok.q = "lazystar" -> TryCounts(toks, k, s, i, caps, minEnd, 0, run, 1)
               [] tok.q = "lazyopt" ->
                    TryCounts(toks, k, s, i, caps, minEnd, 0, IF run >= 1 THEN 1 ELSE 0, 1)

\* try the atom n times, then n + step, ..., up to `stop` (backtracking)
TryCounts(toks, k, s, i, caps, minEnd, n, stop, step) ==
    Bind(MatchHere(toks, k + 1, s, i + n, caps, minEnd), LAMBDA r :
        IF r.ok THEN r
        ELSE IF n = stop THEN NoMatch
        ELSE TryCounts(toks, k, s, i, caps, minEnd, n + step, stop, step))

NoCaps(re) == [g \in 1..re.ngroups |-> <<0, 0>>]

\* a group that did not close keeps no span
Closed(caps) == [g \in DOMAIN caps |-> IF caps[g][2] = 0 THEN <<0, 0>> ELSE caps[g]]

\* Pattern.match at position i: [ok, start, end, caps]
MatchAt(re, s, i, minEnd) ==
    Bind(MatchHere(re.toks, 1, s, i, NoCaps(re), minEnd), LAMBDA r :
        IF r.ok THEN [ok |-> TRUE, start |-> i, end |-> r.end, caps |-> Closed(r.caps)]
        ELSE NoMatch)

\* Pattern.search from position i: the leftmost match.  With mustAdvance an
\* empty match at position i itself is not accepted.
RECURSIVE SearchFrom(_, _, _, _)
SearchFrom(re, s, i, mustAdvance) ==
    IF i > Len(s) + 1 THEN NoMatch
    ELSE Bind(MatchAt(re, s, i, IF mustAdvance THEN i + 1 ELSE 0), LAMBDA r :
            IF r.ok THEN r ELSE SearchFrom(re, s, i + 1, FALSE))

\* bool(compiled.search(text))
re_search(re, s) == SearchFrom(re, s, 1, FALSE).ok

\* bool(compiled.match(text))
re_match(re, s) == MatchAt(re, s, 1, 0).ok

-----------------------------------------------------------------------------
(* patterns.py                                                             *)

\* the characters re.escape puts a backslash before (Python 3.7 and later;
\* `_` is not one of them)
EscapedChars ==
    {"(", ")", "[", "]", "{", "}", "?", "*", "+", "-", "|", "^", "$", "\\", ".",
     "&", "~", "#", " ", "\t", "\n"}

RECURSIVE re_escape(_)
re_escape(s) ==
    IF s = <<>> THEN <<>>
    ELSE (IF Head(s) \in EscapedChars THEN <<"\\", Head(s)>> ELSE <<Head(s)>>)
         \o re_escape(Tail(s))

\* re.sub(r'\\(.)\\\?', r'\1?', escaped): a backslash, any character, a
\* backslash and `?` become that character and `?`
RECURSIVE UnescapeOptional(_, _)
UnescapeOptional(s, i) ==
    IF i > Len(s) THEN <<>>
    ELSE IF /\ i + 3 <= Len(s)
            /\ s[i] = "\\"
            /\ s[i + 1] # "\n"
            /\ s[i + 2] = "\\"
            /\ s[i + 3] = "?"
    THEN <<s[i + 1], "?">> \o UnescapeOptional(s, i + 4)
    ELSE <<s[i]>> \o UnescapeOptional(s, i + 1)

wildcard_to_regex(pattern) ==
    LET escaped  == re_escape(pattern)
        stars    == replace(escaped, <<"\\", "*">>, <<".", "*">>)
        unders   == replace(stars, <<"\\", "_">>, <<".">>)
        optional == UnescapeOptional(unders, 1)
    IN  <<"^">> \o optional \o <<"$">>

Delimiter == <<"|", "|">>

\* parse_replacement_pattern: [ok, original, replacement] or ValueError
parse_replacement_pattern(pattern) ==
    IF ~Contains(Delimiter, pattern)
    THEN [ok |-> FALSE, exc |-> "ValueError"]
    ELSE LET at == FirstIndex(pattern, Delimiter) IN
         [ok          |-> TRUE,
          original    |-> strip(SubSeq(pattern, 1, at - 1)),
          replacement |-> strip(SubSeq(pattern, at + 2, Len(pattern)))]

\* match_with_wildcards(text, pattern) with case_sensitive = True:
\* [ok, value], or re.error when the translated pattern does not compile
match_with_wildcards(text, pattern) ==
    LET compiled == get_compiled_pattern(wildcard_to_regex(pattern)) IN
    IF compiled.ok THEN [ok |-> TRUE, value |-> re_match(compiled, text)]
    ELSE ReError

Digits == {"1", "2", "3", "4", "5", "6", "7", "8", "9"}

DigitValue(c) ==
    CASE c = "1" -> 1 [] c = "2" -> 2 [] c = "3" -> 3 [] c = "4" -> 4 [] c = "5" -> 5
      [] c = "6" -> 6 [] c = "7" -> 7 [] c = "8" -> 8 [] c = "9" -> 9

\* re's template parser on the subset \1..\9, \\ and literal text: a
\* sequence of [lit |-> c] and [ref |-> g], or re.error (a reference to a
\* group the pattern does not have, a backslash at the end)
RECURSIVE ParseTemplate(_, _, _, _)
ParseTemplate(tpl, i, ngroups, acc) ==
    IF i > Len(tpl) THEN [ok |-> TRUE, parts |-> acc]
    ELSE IF tpl[i] # "\\"
    THEN ParseTemplate(tpl, i + 1, ngroups, Append(acc, [k |-> "lit", c |-> tpl[i]]))
    ELSE IF i = Len(tpl) THEN ReError
    ELSE IF tpl[i + 1] \in Digits
    THEN IF DigitValue(tpl[i + 1]) <= ngroups
         THEN ParseTemplate(tpl, i + 2, ngroups,
                            Append(acc, [k |-> "ref", g |-> DigitValue(tpl[i + 1])]))
         ELSE ReError
    ELSE IF tpl[i + 1] = "\\"
    THEN ParseTemplate(tpl, i + 2, ngroups, Append(acc, [k |-> "lit", c |-> "\\"]))
    ELSE ParseTemplate(tpl, i + 2, ngroups,
                       Append(Append(acc, [k |-> "lit", c |-> "\\"]),
                              [k |-> "lit", c |-> tpl[i + 1]]))

\* the replacement text of one match
RECURSIVE Expand(_, _, _)
Expand(parts, s, m) ==
    IF parts = <<>> THEN <<>>
    ELSE LET h == Head(parts) IN
         (IF h.k = "lit" THEN <<h.c>>
          ELSE SubSeq(s, m.caps[h.g][1], m.caps[h.g][2] - 1))
         \o Expand(Tail(parts), s, m)

\* Pattern.sub(template, s) with count = 0: every non-overlapping match,
\* left to right.  done: the text before it is already copied; from: where
\* the next search starts.
RECURSIVE SubFrom(_, _, _, _, _, _)
SubFrom(re, parts, s, done, from, mustAdvance) ==
    Bind(SearchFrom(re, s, from, mustAdvance), LAMBDA m :
        IF ~m.ok THEN SubSeq(s, done, Len(s))
        ELSE SubSeq(s, done, m.start - 1) \o Expand(parts, s, m)
             \o SubFrom(re, parts, s, m.end, m.end, m.end = m.start))

\* substitute_with_capture(text, pattern, replacement): [ok, value] or re.error
substitute_with_capture(text, pattern, replacement) ==
    LET compiled_pattern   == get_compiled_pattern(pattern)
        python_replacement == replace(replacement, <<"$">>, <<"\\">>)
    IN  IF ~compiled_pattern.ok THEN ReError
        ELSE LET tpl == ParseTemplate(python_replacement, 1, compiled_pattern.ngroups, <<>>) IN
             IF ~tpl.ok THEN ReError
             ELSE [ok |-> TRUE, value |-> SubFrom(compiled_pattern, tpl.parts, text, 1, 1, FALSE)]

-----------------------------------------------------------------------------
(* base.py: rules.  A rule is a record                                     *)
(*   [cls, filter_type, pattern, patterns, priority, replacement, enabled] *)
(* where cls tells FilterRule from GroupFilterRule; a FilterRule has no    *)
(* patterns (<<>> here) and a GroupFilterRule no pattern or replacement.   *)
(* Two rules are equal (NamedTuple equality) when all fields are equal.    *)

None == "None"

FilterRule(filter_type, pattern, priority, enabled) ==
    [cls |-> "FilterRule", filter_type |-> filter_type, pattern |-> pattern,
     patterns |-> <<>>, priority |-> priority, replacement |-> None,
     enabled |-> enabled]

GroupFilterRule_from_list(patterns, priority, enabled) ==
    [cls |-> "GroupFilterRule", filter_type |-> "group", pattern |-> <<>>,
     patterns |-> patterns, priority |-> priority, replacement |-> None,
     enabled |-> enabled]

\* FilterType: the values of the enumeration
FilterType ==
    {"plain_keyword", "wildcard", "regex", "group", "replace", "replace_capture"}

-----------------------------------------------------------------------------
(* filters.py.  A filter is [rule, id]: the rule it wraps and the ordinal  *)
(* at which that rule object was supplied to the engine.  What a filter's  *)
(* constructor computes (the parsed replacement pattern, the compiled      *)
(* pattern) is a function of the immutable rule and is recomputed here     *)
(* where it is used.                                                       *)

\* FilterFactory._filter_registry: the kinds it has a class for
_filter_registry == FilterType

\* the classes that derive from BaseFilter (GroupFilter derives from BaseGroupFilter)
IsBaseFilter(f) == f.rule.filter_type # "group"

IsReplacementFilter(f) == f.rule.filter_type \in {"replace", "replace_capture"}

\* the enabled flag of the rule is not looked at
is_enabled_always(f) == TRUE

is_enabled(f) == f.rule.enabled

get_priority(f) == f.rule.priority

\* FilterFactory.create_filter(rule), the constructors included:
\* [ok |-> TRUE] or the exception raised
create_filter(rule) ==
    IF rule.filter_type \notin _filter_registry
    THEN [ok |-> FALSE, exc |-> "ValueError"]
    ELSE CASE rule.filter_type = "regex" ->
                IF get_compiled_pattern(rule.pattern).ok THEN [ok |-> TRUE] ELSE ReError
           [] rule.filter_type = "replace" ->
                IF parse_replacement_pattern(rule.pattern).ok THEN [ok |-> TRUE]
                ELSE [ok |-> FALSE, exc |-> "ValueError"]
           [] rule.filter_type = "replace_capture" ->
                LET parsed == parse_replacement_pattern(rule.pattern) IN
                IF ~parsed.ok THEN [ok |-> FALSE, exc |-> "ValueError"]
                ELSE IF get_compiled_pattern(parsed.original).ok THEN [ok |-> TRUE]
                ELSE ReError
           [] OTHER -> [ok |-> TRUE]

\* GroupFilter._matches_pattern
_matches_pattern(tag, pattern) == Contains(pattern, normalize_tag(tag))

\* a group that counts as present as soon as one of its patterns is found
GroupFilter_matches_any(rule, tags) ==
    \E k \in 1..Len(rule.patterns) :
        \E i \in 1..Len(tags) : _matches_pattern(tags[i], rule.patterns[k])

\* GroupFilter.matches(tags): every pattern is found in some tag
GroupFilter_matches(rule, tags) ==
    \A k \in 1..Len(rule.patterns) :
        \E i \in 1..Len(tags) : _matches_pattern(tags[i], rule.patterns[k])

\* a replacement filter compares its source with the normalized form of the tag
matches_normalized(f, tag) ==
    LET rule == f.rule IN
    CASE rule.filter_type = "plain_keyword" ->
           Contains(rule.pattern, normalize_tag(tag))
      [] rule.filter_type = "wildcard" ->
           LET m == match_with_wildcards(tag, rule.pattern) IN m.ok /\ m.value
      [] rule.filter_type = "regex" ->
           re_search(get_compiled_pattern(rule.pattern), tag)
      [] rule.filter_type = "replace" ->
           normalize_tag(tag) = parse_replacement_pattern(rule.pattern).original
      [] rule.filter_type = "replace_capture" ->
           re_search(get_compiled_pattern(parse_replacement_pattern(rule.pattern).original),
                     tag)

\* matches(tag) of the single-tag filters; a wildcard pattern whose
\* translation does not compile counts as no match here and makes
\* MatchRaises true
matches(f, tag) ==
    LET rule == f.rule IN
    CASE rule.filter_type = "plain_keyword" ->
           Contains(rule.pattern, normalize_tag(tag))
      [] rule.filter_type = "wildcard" ->
           LET m == match_with_wildcards(tag, rule.pattern) IN m.ok /\ m.value
      [] rule.filter_type = "regex" ->
           re_search(get_compiled_pattern(rule.pattern), tag)
      [] rule.filter_type = "replace" ->
           tag = parse_replacement_pattern(rule.pattern).original
      [] rule.filter_type = "replace_capture" ->
           re_search(get_compiled_pattern(parse_replacement_pattern(rule.pattern).original),
                     tag)

MatchRaises(f, tag) ==
    /\ f.rule.filter_type = "wildcard"
    /\ ~match_with_wildcards(tag, f.rule.pattern).ok

\* ReplaceCaptureFilter.apply's call of substitute_with_capture for one tag
Substituted(f, tag) ==
    LET parsed == parse_replacement_pattern(f.rule.pattern) IN
    substitute_with_capture(tag, parsed.original, parsed.replacement)

\* the tags of `tags` that pass test, in order
Keep(tags, test(_)) == SelectSeq(tags, test)

\* GroupFilter.apply
GroupFilter_apply(f, tags) ==
    IF ~is_enabled(f) THEN tags
    ELSE IF ~GroupFilter_matches(f.rule, tags) THEN tags
    ELSE LET should_remove(tag) ==
                 \E k \in 1..Len(f.rule.patterns) : _matches_pattern(tag, f.rule.patterns[k])
         IN  Keep(tags, LAMBDA tag : ~should_remove(tag))

\* a removing filter that drops the first tag it matches and no other
apply_first_match_only(f, tags) ==
    IF ~is_enabled(f) THEN tags
    ELSE CASE f.rule.filter_type = "group" -> GroupFilter_apply(f, tags)
           [] f.rule.filter_type = "replace" ->
                [i \in 1..Len(tags) |->
                    IF matches(f, tags[i])
                    THEN parse_replacement_pattern(f.rule.pattern).replacement
                    ELSE tags[i]]
           [] f.rule.filter_type = "replace_capture" ->
                [i \in 1..Len(tags) |->
                    IF matches(f, tags[i]) THEN Substituted(f, tags[i]).value ELSE tags[i]]
           [] OTHER ->
                LET hits == {i \in 1..Len(tags) : matches(f, tags[i])} IN
                IF hits = {} THEN tags
                ELSE LET first == CHOOSE i \in hits : \A j \in hits : i <= j
                     IN  SubSeq(tags, 1, first - 1) \o SubSeq(tags, first + 1, Len(tags))

\* a replacement filter keeps the tag it matches and puts the replacement
\* behind it
RECURSIVE AddReplacements(_, _)
AddReplacements(f, tags) ==
    IF tags = <<>> THEN <<>>
    ELSE (IF matches(f, Head(tags))
          THEN <<Head(tags), parse_replacement_pattern(f.rule.pattern).replacement>>
          ELSE <<Head(tags)>>)
         \o AddReplacements(f, Tail(tags))

apply_adding_replacement(f, tags) ==
    IF ~is_enabled(f) THEN tags
    ELSE CASE f.rule.filter_type = "group" -> GroupFilter_apply(f, tags)
           [] f.rule.filter_type = "replace" -> AddReplacements(f, tags)
           [] f.rule.filter_type = "replace_capture" ->
                [i \in 1..Len(tags) |->
                    IF matches(f, tags[i]) THEN Substituted(f, tags[i]).value ELSE tags[i]]
           [] OTHER -> Keep(tags, LAMBDA tag : ~matches(f, tag))

\* apply(tags) of every filter class, when it does not raise
apply(f, tags) ==
    IF ~is_enabled(f) THEN tags
    ELSE CASE f.rule.filter_type = "group" -> GroupFilter_apply(f, tags)
           [] f.rule.filter_type = "replace" ->
                [i \in 1..Len(tags) |->
                    IF matches(f, tags[i])
                    THEN parse_replacement_pattern(f.rule.pattern).replacement
                    ELSE tags[i]]
           [] f.rule.filter_type = "replace_capture" ->
                [i \in 1..Len(tags) |->
                    IF matches(f, tags[i]) THEN Substituted(f, tags[i]).value ELSE tags[i]]
           [] OTHER -> Keep(tags, LAMBDA tag : ~matches(f, tag))

\* apply raises re.error: the wildcard translation fails to compile when the
\* first tag is matched, or the replacement template is rejected
ApplyRaises(f, tags) ==
    /\ is_enabled(f)
    /\ \E i \in 1..Len(tags) :
          \/ MatchRaises(f, tags[i])
          \/ /\ f.rule.filter_type = "replace_capture"
             /\ matches(f, tags[i])
             /\ ~Substituted(f, tags[i]).ok

-----------------------------------------------------------------------------
(* engine.py: TagFilterEngine                                              *)

Filter(rule, id) == [rule |-> rule, id |-> id]

\* _create_filters(rules): a filter for every enabled rule; a ValueError of
\* the factory or of a constructor is printed and the rule skipped, any
\* other exception leaves the loop.  [ok, filters] or [ok |-> FALSE, exc].
RECURSIVE CreateFrom(_, _, _, _)
CreateFrom(rs, ids, k, acc) ==
    IF k > Len(rs) THEN [ok |-> TRUE, filters |-> acc]
    ELSE IF ~rs[k].enabled THEN CreateFrom(rs, ids, k + 1, acc)
    ELSE LET made == create_filter(rs[k]) IN
         IF made.ok THEN CreateFrom(rs, ids, k + 1, Append(acc, Filter(rs[k], ids[k])))
         ELSE IF made.exc = "ValueError" THEN CreateFrom(rs, ids, k + 1, acc)
         ELSE [ok |-> FALSE, exc |-> made.exc]

\* a ValueError of the factory leaves the loop like any other exception
_create_filters_strict(rs, ids) ==
    IF \E k \in 1..Len(rs) :
          /\ rs[k].enabled
          /\ ~create_filter(rs[k]).ok
          /\ create_filter(rs[k]).exc = "ValueError"
    THEN [ok |-> FALSE, exc |-> "ValueError"]
    ELSE CreateFrom(rs, ids, 1, <<>>)

_create_filters(rs, ids) == CreateFrom(rs, ids, 1, <<>>)

\* a sort that puts f ahead of the filters of its own priority
InsertAheadOfEqual(sorted, f) ==
    Bind(Cardinality({i \in 1..Len(sorted) : get_priority(sorted[i]) > get_priority(f)}),
         LAMBDA n : SubSeq(sorted, 1, n) \o <<f>> \o SubSeq(sorted, n + 1, Len(sorted)))

\* list.sort(key = priority, reverse = True) is stable: f goes behind every
\* filter of the same or a higher priority
InsertByPriority(sorted, f) ==
    Bind(Cardinality({i \in 1..Len(sorted) : get_priority(sorted[i]) >= get_priority(f)}),
         LAMBDA n : SubSeq(sorted, 1, n) \o <<f>> \o SubSeq(sorted, n + 1, Len(sorted)))

RECURSIVE SortFrom(_, _, _)
SortFrom(fs, k, acc) ==
    IF k > Len(fs) THEN acc
    ELSE Bind(InsertByPriority(acc, fs[k]), LAMBDA sorted : SortFrom(fs, k + 1, sorted))

\* the group filters are put ahead of the single-tag filters, each kind in
\* descending order of priority
sort_groups_first(fs) ==
    SortFrom(SelectSeq(fs, LAMBDA f : f.rule.filter_type = "group"), 1, <<>>)
        \o SortFrom(SelectSeq(fs, LAMBDA f : f.rule.filter_type # "group"), 1, <<>>)

_sort_filters_by_priority(fs) == SortFrom(fs, 1, <<>>)

\* TagFilterEngine.__init__(rules): [ok, rules, ruleIds, filters] or the exception
TagFilterEngine_init(rs) ==
    LET ids   == [k \in 1..Len(rs) |-> k]
        built == _create_filters(rs, ids)
    IN  IF built.ok
        THEN [ok |-> TRUE, rules |-> rs, ruleIds |-> ids,
              filters |-> _sort_filters_by_priority(built.filters)]
        ELSE built

\* every filter is given the caller's list instead of the previous output
NextTagsFromInput(f, tags, current_tags) == apply(f, tags)

\* filter_tags, line 67: what one filter of the loop is given
NextTags(f, tags, current_tags) == apply(f, current_tags)

NextRaises(f, tags, current_tags) == ApplyRaises(f, current_tags)

\* the loop of filter_tags from the k-th filter on
RECURSIVE RunFilters(_, _, _, _)
RunFilters(fs, k, tags, current_tags) ==
    IF k > Len(fs) THEN [ok |-> TRUE, tags |-> current_tags]
    ELSE IF ~is_enabled(fs[k]) THEN RunFilters(fs, k + 1, tags, current_tags)
    ELSE IF NextRaises(fs[k], tags, current_tags) THEN ReError
    ELSE Bind(NextTags(fs[k], tags, current_tags), LAMBDA next :
            IF next = <<>> THEN [ok |-> TRUE, tags |-> next]
            ELSE RunFilters(fs, k + 1, tags, next))

\* TagFilterEngine.filter_tags(tags): [ok, tags] or the exception
filter_tags(fs, tags) ==
    IF tags = <<>> THEN [ok |-> TRUE, tags |-> tags]
    ELSE RunFilters(fs, 1, tags, tags)

\* the number of apply calls the loop of filter_tags makes from the k-th filter on
RECURSIVE AppliesFrom(_, _, _)
AppliesFrom(fs, k, current_tags) ==
    IF k > Len(fs) THEN 0
    ELSE IF ~is_enabled(fs[k]) THEN AppliesFrom(fs, k + 1, current_tags)
    ELSE IF ApplyRaises(fs[k], current_tags) THEN 1
    ELSE Bind(apply(fs[k], current_tags), LAMBDA next :
            IF next = <<>> THEN 1 ELSE 1 + AppliesFrom(fs, k + 1, next))

\* the loop is entered with an empty list too
AppliesOf_unguarded(fs, tags) == AppliesFrom(fs, 1, tags)

\* filter_tags, lines 59-72: the number of apply calls it makes
AppliesOf(fs, tags) == IF tags = <<>> THEN 0 ELSE AppliesFrom(fs, 1, tags)

\* get_filter_count
get_filter_count(fs) == Len(SelectSeq(fs, is_enabled))

\* the new filter is appended and the list is not sorted again
add_rule_filters_unsorted(fs, f) == Append(fs, f)

\* add_rule, lines 87-88: the filter list with the new filter
add_rule_filters(fs, f) == _sort_filters_by_priority(Append(fs, f))

\* the last element equal to x instead of the first
IndexOfLast(seq, x) ==
    IF \E i \in 1..Len(seq) : seq[i] = x
    THEN CHOOSE i \in 1..Len(seq) : seq[i] = x /\ \A j \in (i + 1)..Len(seq) : seq[j] # x
    ELSE 0

\* list.remove(x) / `x in list`: the first element equal to x
IndexOf(seq, x) ==
    IF \E i \in 1..Len(seq) : seq[i] = x
    THEN CHOOSE i \in 1..Len(seq) : seq[i] = x /\ \A j \in 1..(i - 1) : seq[j] # x
    ELSE 0

RemoveAt(seq, i) == SubSeq(seq, 1, i - 1) \o SubSeq(seq, i + 1, Len(seq))

-----------------------------------------------------------------------------
(* engine.py: OptimizedTagFilterEngine.  processing_time, the sum of       *)
(* measured wall-clock intervals, is not modelled.                         *)

\* Stats()
NewStats == [total_processed |-> 0, total_filtered |-> 0]

\* the counters are set to the last call's counts instead of added to
UpdateStats_overwrite(st, original_count, result) ==
    [total_processed |-> original_count,
     total_filtered  |-> original_count - Len(result)]

\* filter_tags, lines 158-159
UpdateStats(st, original_count, result) ==
    [total_processed |-> st.total_processed + original_count,
     total_filtered  |-> st.total_filtered + (original_count - Len(result))]

\* OptimizedTagFilterEngine.filter_tags: [ok, tags, stats]; an exception of
\* the base method leaves before the statistics are touched
Optimized_filter_tags(fs, st, tags) ==
    Bind(filter_tags(fs, tags), LAMBDA result :
        IF result.ok
        THEN [ok |-> TRUE, tags |-> result.tags,
              stats |-> UpdateStats(st, Len(tags), result.tags)]
        ELSE [ok |-> FALSE, exc |-> result.exc, stats |-> st])

\* filter_tags_batch: filter_tags on every batch in turn: [ok, out, stats]
RECURSIVE BatchFrom(_, _, _, _, _)
BatchFrom(fs, st, tag_batches, k, out) ==
    IF k > Len(tag_batches) THEN [ok |-> TRUE, out |-> out, stats |-> st]
    ELSE Bind(Optimized_filter_tags(fs, st, tag_batches[k]), LAMBDA r :
            IF r.ok THEN BatchFrom(fs, r.stats, tag_batches, k + 1, Append(out, r.tags))
            ELSE [ok |-> FALSE, exc |-> r.exc, stats |-> r.stats])

filter_tags_batch(fs, st, tag_batches) == BatchFrom(fs, st, tag_batches, 1, <<>>)

\* filter_tags_stream, consumed to the end: the tags it yields.  batch is
\* the buffer; a full buffer is filtered and emptied, what is left at the
\* end is filtered if it is not empty.
RECURSIVE StreamFrom(_, _, _, _, _, _, _)
StreamFrom(fs, st, size, tags, k, batch, out) ==
    IF k > Len(tags)
    THEN IF batch # <<>>
         THEN Bind(Optimized_filter_tags(fs, st, batch), LAMBDA r :
                 IF r.ok THEN [ok |-> TRUE, out |-> out \o r.tags, stats |-> r.stats]
                 ELSE [ok |-> FALSE, exc |-> r.exc, stats |-> r.stats])
         ELSE [ok |-> TRUE, out |-> out, stats |-> st]
    ELSE Bind(Append(batch, tags[k]), LAMBDA grown :
            IF Len(grown) >= size
            THEN Bind(Optimized_filter_tags(fs, st, grown), LAMBDA r :
                    IF r.ok
                    THEN StreamFrom(fs, r.stats, size, tags, k + 1, <<>>, out \o r.tags)
                    ELSE [ok |-> FALSE, exc |-> r.exc, stats |-> r.stats])
            ELSE StreamFrom(fs, st, size, tags, k + 1, grown, out))

\* the whole input is filtered as one chunk, whatever the batch size
stream_as_one_chunk(fs, st, size, tags) ==
    Bind(Optimized_filter_tags(fs, st, tags), LAMBDA r :
        IF r.ok THEN [ok |-> TRUE, out |-> r.tags, stats |-> r.stats]
        ELSE [ok |-> FALSE, exc |-> r.exc, stats |-> r.stats])

\* the tags left in the buffer at the end of the input are not filtered
\* and not yielded
stream_without_flush(fs, st, size, tags) ==
    StreamFrom(fs, st, size, SubSeq(tags, 1, (Len(tags) \div size) * size), 1, <<>>, <<>>)

Optimized_filter_tags_stream(fs, st, size, tags) ==
    StreamFrom(fs, st, size, tags, 1, <<>>, <<>>)

\* get_performance_stats: a copy of the counters with the rate, an exact
\* quotient here: [num, den] stands for num / den, and 0.0 is 0 / 1
get_performance_stats(st) ==
    [total_processed |-> st.total_processed,
     total_filtered  |-> st.total_filtered,
     filter_rate     |-> IF st.total_processed > 0
                         THEN [num |-> st.total_filtered, den |-> st.total_processed]
                         ELSE [num |-> 0, den |-> 1]]

\* _precompile_patterns: compiles the pattern of every FilterRule into the
\* pattern cache and swallows every exception: the patterns it leaves cached
_precompile_patterns(rs) ==
    {rs[k].pattern : k \in {j \in 1..Len(rs) :
        rs[j].cls = "FilterRule" /\ get_compiled_pattern(rs[j].pattern).ok}}

\* OptimizedTagFilterEngine.__init__: the base constructor runs first, and
\* what it raises leaves the constructor before the patterns are precompiled
Optimized_init(rs) ==
    LET base == TagFilterEngine_init(rs) IN
    IF base.ok
    THEN [ok |-> TRUE, rules |-> base.rules, ruleIds |-> base.ruleIds,
          filters |-> base.filters, cached |-> _precompile_patterns(base.rules)]
    ELSE base

-----------------------------------------------------------------------------
(* engine.py: MemoryEfficientFilterEngine                                  *)

\* _should_keep_tag: the loop from the k-th filter on: "keep" (True),
\* "drop" (False) or "raise" (matches raised re.error)
RECURSIVE KeepFrom(_, _, _)
KeepFrom(fs, k, tag) ==
    IF k > Len(fs) THEN "keep"
    ELSE IF ~is_enabled(fs[k]) THEN KeepFrom(fs, k + 1, tag)
    ELSE IF IsBaseFilter(fs[k])
    THEN IF MatchRaises(fs[k], tag) THEN "raise"
         ELSE IF matches(fs[k], tag) /\ IsReplacementFilter(fs[k]) THEN "drop"
         ELSE KeepFrom(fs, k + 1, tag)
    ELSE KeepFrom(fs, k + 1, tag)

_should_keep_tag(fs, tag) == KeepFrom(fs, 1, tag)

\* filter_tags_stream, consumed to the end: [ok, out] or the exception
Memory_filter_tags_stream(fs, tags) ==
    IF \E i \in 1..Len(tags) : _should_keep_tag(fs, tags[i]) = "raise"
    THEN ReError
    ELSE [ok |-> TRUE, out |-> Keep(tags, LAMBDA tag : _should_keep_tag(fs, tag) = "keep")]

-----------------------------------------------------------------------------
(* The calls, as actions.  last = [op, arg, out, exc] is the last call:    *)
(* its name, its argument, what it returned and the exception it raised    *)
(* ("none" when it returned).  hist counts the rule objects supplied so    *)
(* far and sums the lengths of the lists filtered since the statistics     *)
(* were last zero.                                                         *)

Call(op, arg, out, exc) == [op |-> op, arg |-> arg, out |-> out, exc |-> exc]

NoCall == Call("none", <<>>, <<>>, "none")

Init ==
    /\ pc = "new"
    /\ variant = "none"
    /\ rules = <<>>
    /\ ruleIds = <<>>
    /\ filters = <<>>
    /\ batch_size = 0
    /\ stats = NewStats
    /\ last = NoCall
    /\ hist = [supplied |-> 0, sumIn |-> 0, sumOut |-> 0]

\* create_engine(rs, v, batch_size = size)
New(rs, v, size) ==
    /\ pc = "new"
    /\ LET made == IF v = "optimized" THEN Optimized_init(rs) ELSE TagFilterEngine_init(rs)
       IN  IF made.ok
           THEN /\ pc' = "ready"
                /\ variant' = v
                /\ rules' = made.rules
                /\ ruleIds' = made.ruleIds
                /\ filters' = made.filters
                /\ batch_size' = IF v = "optimized" THEN size ELSE 0
                /\ stats' = NewStats
                /\ last' = Call("new", [rules |-> rs, engine_type |-> v], <<>>, "none")
                /\ hist' = [hist EXCEPT !.supplied = Len(rs)]
           ELSE /\ pc' = "failed"
                /\ last' = Call("new", [rules |-> rs, engine_type |-> v], <<>>, made.exc)
                /\ UNCHANGED <<variant, rules, ruleIds, filters, batch_size, stats, hist>>

\* the new rule is put at the head of the rule list
AddRule_rule_first(rule) ==
    /\ pc = "ready"
    /\ hist.supplied < MaxSupplied
    /\ LET id   == hist.supplied + 1
           made == IF rule.enabled THEN create_filter(rule) ELSE [ok |-> FALSE, exc |-> "none"]
       IN  /\ hist' = [hist EXCEPT !.supplied = id]
           /\ IF made.ok
              THEN /\ filters' = add_rule_filters(filters, Filter(rule, id))
                   /\ rules' = <<rule>> \o rules
                   /\ ruleIds' = <<id>> \o ruleIds
                   /\ last' = Call("add_rule", rule, <<>>, "none")
              ELSE /\ UNCHANGED <<rules, ruleIds, filters>>
                   /\ last' = Call("add_rule", rule, <<>>,
                                   IF made.exc = "ValueError" THEN "none" ELSE made.exc)
    /\ UNCHANGED <<pc, variant, batch_size, stats>>

\* add_rule(rule)
AddRule(rule) ==
    /\ pc = "ready"
    /\ hist.supplied < MaxSupplied
    /\ LET id   == hist.supplied + 1
           made == IF rule.enabled THEN create_filter(rule) ELSE [ok |-> FALSE, exc |-> "none"]
       IN  /\ hist' = [hist EXCEPT !.supplied = id]
           /\ IF made.ok
              THEN /\ filters' = add_rule_filters(filters, Filter(rule, id))
                   /\ rules' = Append(rules, rule)
                   /\ ruleIds' = Append(ruleIds, id)
                   /\ last' = Call("add_rule", rule, <<>>, "none")
              ELSE /\ UNCHANGED <<rules, ruleIds, filters>>
                   /\ last' = Call("add_rule", rule, <<>>,
                                   IF made.exc = "ValueError" THEN "none" ELSE made.exc)
    /\ UNCHANGED <<pc, variant, batch_size, stats>>

\* the rule is taken out of the rule list and the filters are not built again
RemoveRule_keeps_filters(rule) ==
    /\ pc = "ready"
    /\ LET at == IndexOf(rules, rule) IN
       IF at = 0
       THEN UNCHANGED <<rules, ruleIds>>
       ELSE /\ rules' = RemoveAt(rules, at)
            /\ ruleIds' = RemoveAt(ruleIds, at)
    /\ last' = Call("remove_rule", rule, <<>>, "none")
    /\ UNCHANGED <<pc, variant, filters, batch_size, stats, hist>>

\* remove_rule(rule)
RemoveRule(rule) ==
    /\ pc = "ready"
    /\ LET at == IndexOf(rules, rule) IN
       IF at = 0
       THEN /\ UNCHANGED <<rules, ruleIds, filters>>
            /\ last' = Call("remove_rule", rule, <<>>, "none")
       ELSE LET rs    == RemoveAt(rules, at)
                ids   == RemoveAt(ruleIds, at)
                built == _create_filters(rs, ids)
            IN  /\ rules' = rs
                /\ ruleIds' = ids
                /\ IF built.ok
                   THEN /\ filters' = _sort_filters_by_priority(built.filters)
                        /\ last' = Call("remove_rule", rule, <<>>, "none")
                   ELSE /\ UNCHANGED filters
                        /\ last' = Call("remove_rule", rule, <<>>, built.exc)
    /\ UNCHANGED <<pc, variant, batch_size, stats, hist>>

\* the rules are cleared and the filters are left as they were
ClearRules_keeps_filters ==
    /\ pc = "ready"
    /\ rules' = <<>>
    /\ ruleIds' = <<>>
    /\ last' = Call("clear_rules", <<>>, <<>>, "none")
    /\ UNCHANGED <<pc, variant, filters, batch_size, stats, hist>>

\* clear_rules()
ClearRules ==
    /\ pc = "ready"
    /\ rules' = <<>>
    /\ ruleIds' = <<>>
    /\ filters' = <<>>
    /\ last' = Call("clear_rules", <<>>, <<>>, "none")
    /\ UNCHANGED <<pc, variant, batch_size, stats, hist>>

\* get_filter_count()
GetFilterCount ==
    /\ pc = "ready"
    /\ last' = Call("get_filter_count", <<>>, get_filter_count(filters), "none")
    /\ UNCHANGED <<pc, variant, rules, ruleIds, filters, batch_size, stats, hist>>

\* filter_tags(tags) of the standard and the memory-efficient engine
FilterTags(tags) ==
    /\ pc = "ready"
    /\ variant # "optimized"
    /\ LET r == filter_tags(filters, tags) IN
       last' = IF r.ok THEN Call("filter_tags", tags, r.tags, "none")
               ELSE Call("filter_tags", tags, <<>>, r.exc)
    /\ UNCHANGED <<pc, variant, rules, ruleIds, filters, batch_size, stats, hist>>

\* OptimizedTagFilterEngine.filter_tags(tags)
OptimizedFilterTags(tags) ==
    /\ pc = "ready"
    /\ variant = "optimized"
    /\ stats.total_processed + Len(tags) <= MaxProcessed
    /\ LET r == Optimized_filter_tags(filters, stats, tags) IN
       /\ stats' = r.stats
       /\ last' = IF r.ok THEN Call("filter_tags", tags, r.tags, "none")
                  ELSE Call("filter_tags", tags, <<>>, r.exc)
       /\ hist' = IF r.ok
                  THEN [hist EXCEPT !.sumIn = @ + Len(tags), !.sumOut = @ + Len(r.tags)]
                  ELSE hist
    /\ UNCHANGED <<pc, variant, rules, ruleIds, filters, batch_size>>

\* the lengths of the lists of a list of lists, added up
RECURSIVE TotalLen(_)
TotalLen(lists) == IF lists = <<>> THEN 0 ELSE Len(Head(lists)) + TotalLen(Tail(lists))

\* filter_tags_batch(tag_batches)
FilterTagsBatch(tag_batches) ==
    /\ pc = "ready"
    /\ variant = "optimized"
    /\ stats.total_processed + TotalLen(tag_batches) <= MaxProcessed
    /\ LET r == filter_tags_batch(filters, stats, tag_batches) IN
       /\ stats' = r.stats
       /\ last' = IF r.ok THEN Call("filter_tags_batch", tag_batches, r.out, "none")
                  ELSE Call("filter_tags_batch", tag_batches, <<>>, r.exc)
       /\ hist' = IF r.ok
                  THEN [hist EXCEPT !.sumIn = @ + TotalLen(tag_batches),
                                    !.sumOut = @ + TotalLen(r.out)]
                  ELSE hist
    /\ UNCHANGED <<pc, variant, rules, ruleIds, filters, batch_size>>

\* list(filter_tags_stream(iter(tags))) on the optimized engine
OptimizedFilterTagsStream(tags) ==
    /\ pc = "ready"
    /\ variant = "optimized"
    /\ stats.total_processed + Len(tags) <= MaxProcessed
    /\ LET r == Optimized_filter_tags_stream(filters, stats, batch_size, tags) IN
       /\ stats' = r.stats
       /\ last' = IF r.ok THEN Call("filter_tags_stream", tags, r.out, "none")
                  ELSE Call("filter_tags_stream", tags, <<>>, r.exc)
       /\ hist' = IF r.ok
                  THEN [hist EXCEPT !.sumIn = @ + Len(tags), !.sumOut = @ + Len(r.out)]
                  ELSE hist
    /\ UNCHANGED <<pc, variant, rules, ruleIds, filters, batch_size>>

\* get_performance_stats()
GetPerformanceStats ==
    /\ pc = "ready"
    /\ variant = "optimized"
    /\ last' = Call("get_performance_stats", <<>>, get_performance_stats(stats), "none")
    /\ UNCHANGED <<pc, variant, rules, ruleIds, filters, batch_size, stats, hist>>

\* total_processed is set to 0 and total_filtered is left as it is
ResetStats_processed_only ==
    /\ pc = "ready"
    /\ variant = "optimized"
    /\ stats' = [stats EXCEPT !.total_processed = 0]
    /\ last' = Call("reset_stats", <<>>, <<>>, "none")
    /\ hist' = [hist EXCEPT !.sumIn = 0, !.sumOut = 0]
    /\ UNCHANGED <<pc, variant, rules, ruleIds, filters, batch_size>>

\* reset_stats()
ResetStats ==
    /\ pc = "ready"
    /\ variant = "optimized"
    /\ stats' = NewStats
    /\ last' = Call("reset_stats", <<>>, <<>>, "none")
    /\ hist' = [hist EXCEPT !.sumIn = 0, !.sumOut = 0]
    /\ UNCHANGED <<pc, variant, rules, ruleIds, filters, batch_size>>

\* list(filter_tags_stream(iter(tags))) on the memory-efficient engine
MemoryFilterTagsStream(tags) ==
    /\ pc = "ready"
    /\ variant = "memory_efficient"
    /\ LET r == Memory_filter_tags_stream(filters, tags) IN
       last' = IF r.ok THEN Call("filter_tags_stream", tags, r.out, "none")
               ELSE Call("filter_tags_stream", tags, <<>>, r.exc)
    /\ UNCHANGED <<pc, variant, rules, ruleIds, filters, batch_size, stats, hist>>

\* filter.apply(tags) on a filter built by the factory, outside any engine
Apply(rule, tags) ==
    /\ pc = "new"
    /\ create_filter(rule).ok
    /\ LET f == Filter(rule, 1) IN
       last' = IF ApplyRaises(f, tags)
               THEN Call("apply", [rule |-> rule, tags |-> tags], <<>>, "re.error")
               ELSE Call("apply", [rule |-> rule, tags |-> tags], apply(f, tags), "none")
    /\ UNCHANGED <<pc, variant, rules, ruleIds, filters, batch_size, stats, hist>>

-----------------------------------------------------------------------------
(* The standard engine: rule management and filter_tags.                   *)

\* all sequences over S of length at most n
SeqsUpTo(S, n) == UNION {[1..k -> S] : k \in 0..n}

\* plain keyword `b`, ahead of the replacement below
DropB_High == FilterRule("plain_keyword", <<"b">>, 2, TRUE)
\* replace `a` by `b`
ReplaceAB == FilterRule("replace", <<"a", "|", "|", "b">>, 1, TRUE)
\* plain keyword `b`, behind the replacement
DropB_Low == FilterRule("plain_keyword", <<"b">>, 0, TRUE)
\* group: `a` and `c` together, of the replacement's priority
GroupAC == GroupFilterRule_from_list(<<<<"a">>, <<"c">>>>, 1, TRUE)
\* a disabled rule
DisabledC == FilterRule("plain_keyword", <<"c">>, 2, FALSE)

RulePool == {DropB_High, ReplaceAB, DropB_Low, GroupAC}

TagPool == {<<"a">>, <<"b">>, <<"c">>}

\* the tags given to the standard engine; a tag `b` comes from the replacement
PipelineTagPool == {<<"a">>, <<"c">>}

NewStandard == \E rs \in SeqsUpTo(RulePool, MaxRules) : New(rs, "standard", 0)

AddPoolRule == \E rule \in RulePool : AddRule(rule)

RemovePoolRule == \E rule \in RulePool : RemoveRule(rule)

FilterPoolTags == \E tags \in SeqsUpTo(PipelineTagPool, MaxTags) : FilterTags(tags)

Next ==
    \/ NewStandard
    \/ AddPoolRule
    \/ RemovePoolRule
    \/ ClearRules
    \/ FilterPoolTags

Spec == Init /\ [][Next]_vars

-----------------------------------------------------------------------------
(* Properties of the standard engine, under Spec.                          *)

\* the filters are in non-increasing order of priority
SortedByPriority(fs) ==
    \A i \in 1..(Len(fs) - 1) : get_priority(fs[i]) >= get_priority(fs[i + 1])

\* the filters of fs applied one after another, each to the result of the one before
RECURSIVE Compose(_, _)
Compose(fs, tags) ==
    IF fs = <<>> THEN tags ELSE Compose(Tail(fs), apply(Head(fs), tags))

FilterTagsReturned ==
    /\ pc = "ready"
    /\ last.op = "filter_tags"
    /\ last.exc = "none"

\* C1: for a non-empty tag list, filter_tags returns what the enabled filters
\* give when applied one after another in descending order of priority, each
\* to the output of the one before it.
C1_SequentialPipeline ==
    (FilterTagsReturned /\ last.arg # <<>>) =>
        /\ SortedByPriority(filters)
        /\ last.out = Compose(SelectSeq(filters, is_enabled), last.arg)

\* a tag `b` made by the replacement is not seen by the keyword filter ahead
\* of it and is dropped by the keyword filter behind it
C1_Witness ==
    /\ FilterTagsReturned
    /\ [i \in 1..Len(filters) |-> filters[i].rule] = <<DropB_High, ReplaceAB, DropB_Low>>
    /\ last.arg = <<<<"a">>, <<"c">>>>
    /\ last.out = <<<<"c">>>>

\* C2: after construction and any add_rule, remove_rule and clear_rules, the
\* filter list is sorted by non-increasing priority.
C2_FiltersSorted == pc = "ready" => SortedByPriority(filters)

\* add_rule put the new filter ahead of an older one
C2_Witness ==
    /\ pc = "ready"
    /\ last.op = "add_rule"
    /\ \E i \in 1..Len(filters) : \E j \in (i + 1)..Len(filters) :
          /\ filters[i].id = hist.supplied
          /\ get_priority(filters[i]) > get_priority(filters[j])

\* C3: filters of equal priority stand in the order in which their rules
\* were supplied (the constructor's list, then the add_rule calls).
C3_StableOrder ==
    pc = "ready" =>
        \A i \in 1..Len(filters) : \A j \in (i + 1)..Len(filters) :
            get_priority(filters[i]) = get_priority(filters[j])
                => filters[i].id < filters[j].id

\* two filters of equal priority, the later one added by add_rule, with a
\* filter of another priority supplied between them
C3_Witness ==
    /\ pc = "ready"
    /\ last.op = "add_rule"
    /\ \E i \in 1..Len(filters) : \E j \in (i + 1)..Len(filters) :
          /\ get_priority(filters[i]) = get_priority(filters[j])
          /\ filters[j].id = hist.supplied
          /\ filters[i].id + 1 < filters[j].id

-----------------------------------------------------------------------------
(* Engines whose rules only remove tags: PLAIN_KEYWORD, WILDCARD, REGEX.   *)

\* plain keyword `b`, found in the normalized form of a tag
KeywordB == FilterRule("plain_keyword", <<"b">>, 1, TRUE)
\* wildcard `a*`, matched against the tag as given
WildcardA == FilterRule("wildcard", <<"a", "*">>, 2, TRUE)
\* regular expression `c$`, searched in the tag as given
RegexC == FilterRule("regex", <<"c", "$">>, 1, TRUE)
\* a disabled regular expression that would match every tag
DisabledAny == FilterRule("regex", <<".">>, 3, FALSE)

DropRulePool == {KeywordB, WildcardA, RegexC, DisabledAny}

DropTagPool == {<<"a", "c">>, <<"A", "B">>, <<"d">>}

NewDropOnly == \E rs \in SeqsUpTo(DropRulePool, MaxRules) : New(rs, "standard", 0)

FilterDropTags == \E tags \in SeqsUpTo(DropTagPool, MaxTags) : FilterTags(tags)

NextDrop ==
    \/ NewDropOnly
    \/ FilterDropTags

SpecDrop == Init /\ [][NextDrop]_vars

DropOnly(fs) ==
    \A i \in 1..Len(fs) : fs[i].rule.filter_type \in {"plain_keyword", "wildcard", "regex"}

\* C4: for an engine whose rules are only PLAIN_KEYWORD, WILDCARD and REGEX
\* rules, filtering the output of filter_tags again gives that output.
C4_Idempotent ==
    (FilterTagsReturned /\ DropOnly(filters)) =>
        filter_tags(filters, last.out) = [ok |-> TRUE, tags |-> last.out]

\* the keyword filter removed a tag that the wildcard filter ahead of it
\* had let through, and a tag was left
C4_Witness ==
    /\ FilterTagsReturned
    /\ DropOnly(filters)
    /\ [i \in 1..Len(filters) |-> filters[i].rule] = <<WildcardA, KeywordB>>
    /\ last.arg = <<<<"A", "B">>, <<"d">>>>
    /\ last.out = <<<<"d">>>>

-----------------------------------------------------------------------------
(* GroupFilter.apply on its own.                                           *)

\* `a_b` and `c` together
GroupABC == GroupFilterRule_from_list(<<<<"a", "_", "b">>, <<"c">>>>, 0, TRUE)
\* a group of one pattern
GroupA == GroupFilterRule_from_list(<<<<"a">>>>, 0, TRUE)
\* `c` and `d` together
GroupCD == GroupFilterRule_from_list(<<<<"c">>, <<"d">>>>, 0, TRUE)
\* a disabled group
DisabledGroupA == GroupFilterRule_from_list(<<<<"a">>>>, 0, FALSE)

GroupRulePool == {GroupAC, GroupABC, GroupA, GroupCD, DisabledGroupA}

GroupTagPool == {<<"a">>, <<"A", " ", "b">>, <<"c">>, <<"b", "c">>, <<"d">>}

ApplyGroup ==
    \E rule \in GroupRulePool : \E tags \in SeqsUpTo(GroupTagPool, MaxTags) : Apply(rule, tags)

NextGroup == ApplyGroup

SpecGroup == Init /\ [][NextGroup]_vars

\* pattern is a substring of the normalized form of tag
FoundIn(pattern, tag) == Contains(pattern, normalize_tag(tag))

GroupApplied ==
    /\ last.op = "apply"
    /\ last.arg.rule.filter_type = "group"
    /\ last.arg.rule.enabled

\* C5: an enabled GROUP rule is all-or-nothing: when one of its patterns is
\* found in no tag, apply returns the list unchanged; when every pattern is
\* found in some tag, apply returns the tags that contain none of the
\* patterns, in their order.
C5_GroupAllOrNothing ==
    GroupApplied =>
        LET patterns == last.arg.rule.patterns
            tags     == last.arg.tags
            present(k) == \E i \in 1..Len(tags) : FoundIn(patterns[k], tags[i])
            hit(tag)   == \E k \in 1..Len(patterns) : FoundIn(patterns[k], tag)
        IN  /\ last.exc = "none"
            /\ IF \A k \in 1..Len(patterns) : present(k)
               THEN last.out = SelectSeq(tags, LAMBDA tag : ~hit(tag))
               ELSE last.out = tags

\* one pattern of the group is present, the other is not, and the tag that
\* holds the present one stays
C5_Witness ==
    /\ GroupApplied
    /\ last.arg.rule = GroupABC
    /\ last.arg.tags = <<<<"A", " ", "b">>, <<"d">>>>
    /\ last.out = last.arg.tags

-----------------------------------------------------------------------------
(* The memory-efficient engine's stream.                                   *)

MemRulePool == {KeywordB, ReplaceAB, GroupAC, RegexC, DisabledC}

NewMemoryEfficient ==
    \E rs \in SeqsUpTo(MemRulePool, MaxRules) : New(rs, "memory_efficient", 0)

StreamPoolTags == \E tags \in SeqsUpTo(TagPool, MaxTags) : MemoryFilterTagsStream(tags)

NextMem ==
    \/ NewMemoryEfficient
    \/ StreamPoolTags

SpecMem == Init /\ [][NextMem]_vars

IsDropKind(f) == f.rule.filter_type \in {"plain_keyword", "wildcard", "regex"}

\* C6: the memory-efficient stream yields a tag if and only if no enabled
\* PLAIN_KEYWORD, WILDCARD or REGEX filter matches it; a tag matched only by
\* replacement filters passes through, and group filters are ignored.
C6_StreamDropsOnDropKind ==
    (pc = "ready" /\ last.op = "filter_tags_stream" /\ last.exc = "none") =>
        LET dropped(tag) ==
                \E i \in 1..Len(filters) :
                    /\ is_enabled(filters[i])
                    /\ IsDropKind(filters[i])
                    /\ matches(filters[i], tag)
        IN  last.out = SelectSeq(last.arg, LAMBDA tag : ~dropped(tag))

-----------------------------------------------------------------------------
(* Construction and add_rule with rules that no filter can be built for.   *)

\* a rule of a kind the factory has no class for
UnknownKind == FilterRule("custom", <<"b">>, 3, TRUE)
\* replacement rules without the `||` delimiter
MalformedReplace == FilterRule("replace", <<"a", "b">>, 1, TRUE)
MalformedCapture == FilterRule("replace_capture", <<"a", "b">>, 1, TRUE)
\* a regular expression that does not compile: `*a`
BadRegex == FilterRule("regex", <<"*", "a">>, 2, TRUE)

BuildRulePool == {UnknownKind, MalformedReplace, MalformedCapture, BadRegex, KeywordB, ReplaceAB}

BuildTagPool == {<<"a">>, <<"b">>}

EngineTypes == {"standard", "optimized"}

NewFromBuildPool ==
    \E rs \in SeqsUpTo(BuildRulePool, MaxRules) : \E v \in EngineTypes : New(rs, v, 1)

AddBuildRule == \E rule \in BuildRulePool : AddRule(rule)

FilterBuildTags == \E tags \in SeqsUpTo(BuildTagPool, MaxTags) : FilterTags(tags)

NextBuild ==
    \/ NewFromBuildPool
    \/ AddBuildRule
    \/ FilterBuildTags

SpecBuild == Init /\ [][NextBuild]_vars

IsUnknownKind(rule) == rule.filter_type \notin _filter_registry

RulesOf(fs) == [i \in 1..Len(fs) |-> fs[i].rule]

\* C7: rules of a kind absent from the registry never abort construction:
\* the constructor fails only if it fails without them, and the engine it
\* builds has the filters, and gives the filter_tags results, of the engine
\* built from the other rules alone.
C7_UnknownKindSkipped ==
    (last.op = "new" /\ \E k \in 1..Len(last.arg.rules) : IsUnknownKind(last.arg.rules[k])) =>
        LET others == SelectSeq(last.arg.rules, LAMBDA rule : ~IsUnknownKind(rule))
            alone  == TagFilterEngine_init(others)
        IN  IF pc = "failed"
            THEN ~alone.ok /\ alone.exc = last.exc
            ELSE /\ alone.ok
                 /\ RulesOf(filters) = RulesOf(alone.filters)
                 /\ \A tags \in SeqsUpTo(BuildTagPool, MaxTags) :
                        filter_tags(filters, tags) = filter_tags(alone.filters, tags)

\* an engine built from an unknown rule and a keyword rule has the keyword filter
C7_Witness ==
    /\ pc = "ready"
    /\ last.op = "new"
    /\ last.arg.rules = <<UnknownKind, KeywordB>>
    /\ RulesOf(filters) = <<KeywordB>>
    /\ filter_tags(filters, <<<<"a">>, <<"b">>>>).tags = <<<<"a">>>>

IsMalformedReplacement(rule) ==
    /\ rule.enabled
    /\ rule.filter_type \in {"replace", "replace_capture"}
    /\ ~Contains(Delimiter, rule.pattern)

\* C8: construction with, and add_rule of, an enabled REPLACE or
\* REPLACE_CAPTURE rule whose pattern lacks `||` fails with an error the
\* caller sees.
C8_MalformedReplacementSurfaced ==
    /\ (last.op = "new" /\ \E k \in 1..Len(last.arg.rules) :
                               IsMalformedReplacement(last.arg.rules[k]))
           => (pc = "failed" /\ last.exc # "none")
    /\ (last.op = "add_rule" /\ IsMalformedReplacement(last.arg)) => last.exc # "none"

\* C9: constructing an optimized engine whose rules include an enabled REGEX
\* rule that does not compile completes without error.
C9_BadRegexDeferred ==
    (/\ last.op = "new"
     /\ last.arg.engine_type = "optimized"
     /\ \E k \in 1..Len(last.arg.rules) :
           /\ last.arg.rules[k].enabled
           /\ last.arg.rules[k].filter_type = "regex"
           /\ ~get_compiled_pattern(last.arg.rules[k].pattern).ok)
        => (pc = "ready" /\ last.exc = "none")

-----------------------------------------------------------------------------
(* The optimized engine and its statistics.                                *)

OptRuleLists == {<<>>, <<KeywordB>>, <<ReplaceAB, KeywordB>>, <<GroupAC, DisabledC>>}

BatchSizes == {1, 2}

\* the lists a batch is made of
BatchPool == {<<>>, <<<<"a">>>>, <<<<"b">>, <<"c">>>>}

NewOptimized == \E rs \in OptRuleLists : \E size \in BatchSizes : New(rs, "optimized", size)

FilterOptTags == \E tags \in SeqsUpTo(TagPool, MaxTags) : OptimizedFilterTags(tags)

FilterOptBatches == \E tag_batches \in SeqsUpTo(BatchPool, MaxBatches) : FilterTagsBatch(tag_batches)

\* the tags of a stream: `a` and `c` make the group of GroupAC
StreamTagPool == {<<"a">>, <<"c">>}

StreamOptTags == \E tags \in SeqsUpTo(StreamTagPool, MaxStream) : OptimizedFilterTagsStream(tags)

NextOpt ==
    \/ NewOptimized
    \/ FilterOptTags
    \/ FilterOptBatches
    \/ StreamOptTags
    \/ GetPerformanceStats
    \/ ResetStats

SpecOpt == Init /\ [][NextOpt]_vars

\* C10: on the optimized engine total_processed is the sum of the lengths of
\* the lists given to filter_tags, filter_tags_batch and filter_tags_stream
\* since creation or the last reset_stats, and total_filtered the sum of
\* (input length - output length); get_performance_stats reports
\* filter_rate = total_filtered / total_processed, and 0 when
\* total_processed is 0.
C10_StatsAdditive ==
    (pc = "ready" /\ variant = "optimized") =>
        /\ stats.total_processed = hist.sumIn
        /\ stats.total_filtered = hist.sumIn - hist.sumOut
        /\ last.op = "get_performance_stats" =>
              /\ last.out.total_processed = hist.sumIn
              /\ last.out.total_filtered = hist.sumIn - hist.sumOut
              /\ last.out.filter_rate.den > 0
              /\ IF hist.sumIn = 0
                 THEN last.out.filter_rate.num = 0
                 ELSE last.out.filter_rate.num * hist.sumIn
                          = (hist.sumIn - hist.sumOut) * last.out.filter_rate.den

\* several calls have added up to four tags processed and two removed
C10_Witness ==
    /\ pc = "ready"
    /\ variant = "optimized"
    /\ last.op = "get_performance_stats"
    /\ batch_size = 1
    /\ hist.sumIn = 4
    /\ hist.sumOut = 2
    /\ last.out.filter_rate = [num |-> 2, den |-> 4]

\* the consecutive chunks of b elements of tags, the last one shorter when
\* b does not divide the length
Chunks(tags, b) ==
    [k \in 1..((Len(tags) + b - 1) \div b) |->
        SubSeq(tags, (k - 1) * b + 1, IF k * b < Len(tags) THEN k * b ELSE Len(tags))]

\* the lists of a list of lists, one after another
RECURSIVE Concat(_)
Concat(lists) == IF lists = <<>> THEN <<>> ELSE Head(lists) \o Concat(Tail(lists))

StreamReturned ==
    /\ pc = "ready"
    /\ variant = "optimized"
    /\ last.op = "filter_tags_stream"
    /\ last.exc = "none"

\* C11: with batch size b >= 1 the optimized stream yields the concatenation,
\* in order, of filter_tags applied to the consecutive chunks of b input
\* tags, the last chunk holding the n mod b tags left over; the chunks are
\* not empty and together are the input.
C11_StreamChunks ==
    (StreamReturned /\ batch_size >= 1) =>
        LET chunks == Chunks(last.arg, batch_size) IN
        /\ Concat(chunks) = last.arg
        /\ \A k \in 1..Len(chunks) : chunks[k] # <<>>
        /\ last.out = Concat([k \in 1..Len(chunks) |-> filter_tags(filters, chunks[k]).tags])

\* three tags in chunks of two: the group is whole in the first chunk and
\* removed there, the tag of the short last chunk stays
C11_Witness ==
    /\ StreamReturned
    /\ batch_size = 2
    /\ RulesOf(filters) = <<GroupAC>>
    /\ last.arg = <<<<"a">>, <<"c">>, <<"a">>>>
    /\ last.out = <<<<"a">>>>

-----------------------------------------------------------------------------
(* Rule management on the standard engine, under Spec.                     *)

\* the positions of the rules equal to rule
EqualAt(rule) == {i \in 1..Len(rules) : rules[i] = rule}

\* C12: remove_rule(r) removes the earliest rule equal to r by value, and
\* with it the filter built from that rule object; every other rule and
\* the order of the remaining filters stay; when no rule equals r, rules
\* and filters are unchanged.
C12_RemoveByValue ==
    [][(pc = "ready" /\ last'.op = "remove_rule") =>
          /\ last'.exc = "none"
          /\ IF EqualAt(last'.arg) = {}
             THEN /\ rules' = rules
                  /\ ruleIds' = ruleIds
                  /\ filters' = filters
             ELSE LET at == CHOOSE i \in EqualAt(last'.arg) : \A j \in EqualAt(last'.arg) : i <= j
                  IN  /\ rules' = SubSeq(rules, 1, at - 1) \o SubSeq(rules, at + 1, Len(rules))
                      /\ ruleIds' = SubSeq(ruleIds, 1, at - 1) \o SubSeq(ruleIds, at + 1, Len(ruleIds))
                      /\ filters' = SelectSeq(filters, LAMBDA f : f.id # ruleIds[at])]_vars

\* of two equal rules the one supplied first was removed, the one added
\* later and the rule between them are left
C12_Witness ==
    /\ pc = "ready"
    /\ last.op = "remove_rule"
    /\ last.arg = DropB_High
    /\ rules = <<ReplaceAB, DropB_High>>
    /\ ruleIds = <<2, 3>>
    /\ [i \in 1..Len(filters) |-> filters[i].id] = <<3, 2>>

-----------------------------------------------------------------------------
(* Rule management with rules that get no filter: disabled, of an unknown  *)
(* kind, or with a malformed pattern.                                      *)

ManageRulePool == {KeywordB, ReplaceAB, DisabledC, UnknownKind, MalformedReplace}

NewManaged == \E rs \in SeqsUpTo(ManageRulePool, MaxRules) : New(rs, "standard", 0)

AddManagedRule == \E rule \in ManageRulePool : AddRule(rule)

RemoveManagedRule == \E rule \in ManageRulePool : RemoveRule(rule)

NextManage ==
    \/ NewManaged
    \/ AddManagedRule
    \/ RemoveManagedRule
    \/ ClearRules
    \/ GetFilterCount

SpecManage == Init /\ [][NextManage]_vars

\* C13: after add_rule(r) with r of a registered kind, enabled or not, r is
\* in the engine's rule list.
C13_AddedRuleIsHeld ==
    (pc = "ready" /\ last.op = "add_rule" /\ ~IsUnknownKind(last.arg)) =>
        \E i \in 1..Len(rules) : rules[i] = last.arg

\* a filter is built for the rule: it is enabled, of a registered kind and
\* its pattern is accepted
Buildable(rule) == rule.enabled /\ create_filter(rule).ok

\* the number of rules held for which a filter is built
HeldCount(rs) == Cardinality({i \in 1..Len(rs) : Buildable(rs[i])})

\* C14: get_filter_count is the number of enabled rules of a registered
\* kind with a valid pattern that the engine holds; add_rule of such a rule
\* raises it by exactly 1, remove_rule of such a rule that is held lowers it
\* by exactly 1, and clear_rules makes it 0.
C14_CountTracksRules ==
    /\ [](pc = "ready" =>
            /\ get_filter_count(filters) = HeldCount(rules)
            /\ last.op = "get_filter_count" => last.out = HeldCount(rules))
    /\ [][pc = "ready" =>
            /\ (last'.op = "add_rule" /\ Buildable(last'.arg))
                  => get_filter_count(filters') = get_filter_count(filters) + 1
            /\ (last'.op = "remove_rule" /\ Buildable(last'.arg) /\ EqualAt(last'.arg) # {})
                  => get_filter_count(filters') = get_filter_count(filters) - 1
            /\ last'.op = "clear_rules" => get_filter_count(filters') = 0]_vars

\* the count was read as 1 from an engine that holds three rules, one
\* disabled and one of an unknown kind
C14_Witness ==
    /\ pc = "ready"
    /\ last.op = "get_filter_count"
    /\ last.out = 1
    /\ rules = <<DisabledC, UnknownKind, KeywordB>>

-----------------------------------------------------------------------------
(* Disabled rules.                                                         *)

\* a disabled regular expression that does not compile
DisabledBadRegex == FilterRule("regex", <<"*", "a">>, 2, FALSE)

DisabledRulePool == {KeywordB, ReplaceAB, DisabledAny, DisabledGroupA, DisabledBadRegex}

NewWithDisabled == \E rs \in SeqsUpTo(DisabledRulePool, MaxRules) : New(rs, "standard", 0)

FilterWithDisabled == \E tags \in SeqsUpTo(BuildTagPool, MaxTags) : FilterTags(tags)

ApplyOne ==
    \E rule \in DisabledRulePool : \E tags \in SeqsUpTo(BuildTagPool, MaxTags) : Apply(rule, tags)

NextDisabled ==
    \/ NewWithDisabled
    \/ FilterWithDisabled
    \/ ApplyOne

SpecDisabled == Init /\ [][NextDisabled]_vars

\* C15: the engine built from a rule list has the filters, and returns from
\* filter_tags the result, of the engine built from the list without its
\* disabled rules; apply of a filter whose rule is disabled returns its input.
C15_DisabledNoEffect ==
    /\ (last.op \in {"new", "filter_tags"}) =>
          LET alone == TagFilterEngine_init(SelectSeq(rules, LAMBDA rule : rule.enabled)) IN
          /\ pc = "ready"
          /\ alone.ok
          /\ RulesOf(filters) = RulesOf(alone.filters)
          /\ last.op = "filter_tags" =>
                /\ last.exc = "none"
                /\ filter_tags(alone.filters, last.arg) = [ok |-> TRUE, tags |-> last.out]
    /\ (last.op = "apply" /\ ~last.arg.rule.enabled) =>
          /\ last.exc = "none"
          /\ last.out = last.arg.tags

\* a disabled rule that would remove every tag stands ahead of the keyword
\* rule, and only the keyword's tag is removed
C15_Witness ==
    /\ pc = "ready"
    /\ last.op = "filter_tags"
    /\ rules = <<DisabledAny, KeywordB>>
    /\ last.arg = <<<<"a">>, <<"b">>>>
    /\ last.out = <<<<"a">>>>

-----------------------------------------------------------------------------
(* filter_tags on the three engine variants.                               *)

VariantRulePool == {KeywordB, ReplaceAB, GroupAC}

AllEngineTypes == {"standard", "optimized", "memory_efficient"}

NewOfAnyType ==
    \E rs \in SeqsUpTo(VariantRulePool, MaxRules) : \E v \in AllEngineTypes : New(rs, v, 1)

FilterOnBase == \E tags \in SeqsUpTo(BuildTagPool, MaxTags) : FilterTags(tags)

FilterOnOptimized == \E tags \in SeqsUpTo(BuildTagPool, MaxTags) : OptimizedFilterTags(tags)

NextVariants ==
    \/ NewOfAnyType
    \/ FilterOnBase
    \/ FilterOnOptimized

SpecVariants == Init /\ [][NextVariants]_vars

\* C16: on every engine variant and with every rule set, filter_tags([])
\* returns an empty list and applies no filter.
C16_EmptyInput ==
    (pc = "ready" /\ last.op = "filter_tags" /\ last.arg = <<>>) =>
        /\ last.exc = "none"
        /\ last.out = <<>>
        /\ AppliesOf(filters, last.arg) = 0

\* the empty list was given to an optimized engine that has two filters
C16_Witness ==
    /\ pc = "ready"
    /\ variant = "optimized"
    /\ Len(filters) = 2
    /\ last.op = "filter_tags"
    /\ last.arg = <<>>
    /\ last.out = <<>>

-----------------------------------------------------------------------------
(* Group rules: GroupFilterRule.from_list, and config.py's                 *)
(* GroupFilterRuleConfig, the validated form a configuration file is read  *)
(* into.                                                                   *)

\* GroupFilterRuleConfig(patterns = ..., priority = ..., enabled = ...): the
\* field validators; what they raise reaches the caller as pydantic's
\* ValidationError
GroupFilterRuleConfig(patterns, priority, enabled) ==
    IF patterns = <<>> THEN [ok |-> FALSE, exc |-> "ValidationError"]
    ELSE IF priority < 0 THEN [ok |-> FALSE, exc |-> "ValidationError"]
    ELSE [ok |-> TRUE, patterns |-> patterns, priority |-> priority, enabled |-> enabled]

\* GroupFilterRuleConfig.to_group_filter_rule
to_group_filter_rule(config) ==
    GroupFilterRule_from_list(config.patterns, config.priority, config.enabled)

PatternPool == {<<"a">>, <<"c">>}

Priorities == {-1, 0}

\* rule = GroupFilterRule.from_list(patterns, priority, enabled)
FromList(patterns, priority, enabled) ==
    /\ pc = "new"
    /\ last' = Call("from_list",
                    [patterns |-> patterns, priority |-> priority, enabled |-> enabled],
                    GroupFilterRule_from_list(patterns, priority, enabled), "none")
    /\ UNCHANGED <<pc, variant, rules, ruleIds, filters, batch_size, stats, hist>>

\* rule = GroupFilterRuleConfig(...).to_group_filter_rule()
FromConfig(patterns, priority, enabled) ==
    /\ pc = "new"
    /\ LET args   == [patterns |-> patterns, priority |-> priority, enabled |-> enabled]
           config == GroupFilterRuleConfig(patterns, priority, enabled)
       IN  last' = IF config.ok
                   THEN Call("GroupFilterRuleConfig", args, to_group_filter_rule(config), "none")
                   ELSE Call("GroupFilterRuleConfig", args, <<>>, config.exc)
    /\ UNCHANGED <<pc, variant, rules, ruleIds, filters, batch_size, stats, hist>>

\* an engine is built from the rule just made
NewFromMadeRule ==
    /\ last.op \in {"from_list", "GroupFilterRuleConfig"}
    /\ last.exc = "none"
    /\ New(<<last.out>>, "standard", 0)

MakeFromList ==
    \E patterns \in SeqsUpTo(PatternPool, MaxPatterns) : \E priority \in Priorities :
        \E enabled \in BOOLEAN : FromList(patterns, priority, enabled)

MakeFromConfig ==
    \E patterns \in SeqsUpTo(PatternPool, MaxPatterns) : \E priority \in Priorities :
        \E enabled \in BOOLEAN : FromConfig(patterns, priority, enabled)

NextRules ==
    \/ MakeFromList
    \/ MakeFromConfig
    \/ NewFromMadeRule
    \/ FilterPoolTags

SpecRules == Init /\ [][NextRules]_vars

\* C17: a group rule with zero patterns is rejected when the rule is
\* constructed: GroupFilterRule.from_list with an empty pattern sequence
\* fails, and no engine holds a group filter with an empty pattern list.
C17_EmptyGroupRejected ==
    /\ (last.op = "from_list" /\ last.arg.patterns = <<>>) => last.exc # "none"
    /\ pc = "ready" =>
          \A i \in 1..Len(filters) :
              filters[i].rule.filter_type = "group" => filters[i].rule.patterns # <<>>

-----------------------------------------------------------------------------
(* Wildcard and capture rules, each filter applied on its own.             *)

\* wildcard `a_b`
WildcardUnderscore == FilterRule("wildcard", <<"a", "_", "b">>, 0, TRUE)
\* wildcard `ab?`
WildcardOptional == FilterRule("wildcard", <<"a", "b", "?">>, 0, TRUE)
\* replace_capture `a||b`
CaptureAB == FilterRule("replace_capture", <<"a", "|", "|", "b">>, 0, TRUE)
\* replace_capture `(a)x||$1`
CaptureGroup == FilterRule("replace_capture", <<"(", "a", ")", "x", "|", "|", "$", "1">>, 0, TRUE)

PatternRulePool == {WildcardUnderscore, WildcardOptional, WildcardA, CaptureAB, CaptureGroup}

PatternTagPool ==
    {<<"a", "_", "b">>, <<"a", "x", "b">>, <<"a", "b">>, <<"a", "x", "x", "b">>,
     <<"a">>, <<"a", "b", "?">>, <<"a", "a">>}

\* the lists of one tag and of two tags
PatternTagLists ==
    {<<tag>> : tag \in PatternTagPool} \cup {<<t, u>> : t \in PatternTagPool, u \in PatternTagPool}

ApplyPatternRule ==
    \E rule \in PatternRulePool : \E tags \in PatternTagLists : Apply(rule, tags)

NextPatterns == ApplyPatternRule

SpecPatterns == Init /\ [][NextPatterns]_vars

AppliedRule(rule) == last.op = "apply" /\ last.arg.rule = rule

\* C18: in a WILDCARD rule `_` matches exactly one arbitrary character: the
\* filter of pattern `a_b` removes the tags of three characters that begin
\* with `a` and end with `b` (`a_b`, `axb`) and keeps the others (`ab`, `axxb`).
C18_UnderscoreIsOneChar ==
    AppliedRule(WildcardUnderscore) =>
        /\ last.exc = "none"
        /\ last.out = SelectSeq(last.arg.tags,
                                LAMBDA tag : ~(Len(tag) = 3 /\ tag[1] = "a" /\ tag[3] = "b"))

\* C19: in a WILDCARD rule `x?` is zero or one occurrence of x: the filter
\* of pattern `ab?` removes exactly the tags `a` and `ab`, and keeps the
\* literal text `ab?`.
C19_OptionalChar ==
    AppliedRule(WildcardOptional) =>
        /\ last.exc = "none"
        /\ last.out = SelectSeq(last.arg.tags, LAMBDA tag : tag \notin {<<"a">>, <<"a", "b">>})

\* the tag with its first `a` turned into `b`
FirstAToB(tag) ==
    LET hits == {i \in 1..Len(tag) : tag[i] = "a"} IN
    IF hits = {} THEN tag
    ELSE [tag EXCEPT ![CHOOSE i \in hits : \A j \in hits : i <= j] = "b"]

\* C20: REPLACE_CAPTURE substitutes only the first match: the rule `a||b`
\* turns the first `a` of a tag into `b` and leaves the rest of the tag as
\* it was (`aa` becomes `ba`).
C20_FirstMatchOnly ==
    AppliedRule(CaptureAB) =>
        /\ last.exc = "none"
        /\ last.out = [i \in 1..Len(last.arg.tags) |-> FirstAToB(last.arg.tags[i])]

-----------------------------------------------------------------------------
(* REPLACE rules, each filter applied on its own.                          *)

\* replace `A b||c`: the source has an upper-case letter and a space
ReplaceRaw == FilterRule("replace", <<"A", " ", "b", "|", "|", "c">>, 0, TRUE)
\* replace ` a || b `: both halves are padded with spaces
ReplacePadded == FilterRule("replace", <<" ", "a", " ", "|", "|", " ", "b", " ">>, 0, TRUE)

ReplaceRulePool == {ReplaceAB, ReplaceRaw, ReplacePadded}

ReplaceTagPool ==
    {<<"a">>, <<"A">>, <<"a", "a">>, <<" ", "a", " ">>, <<"A", " ", "b">>,
     <<"a", " ", "b">>, <<"A", "_", "b">>}

\* the lists of one tag and of two tags
ReplaceTagLists ==
    {<<tag>> : tag \in ReplaceTagPool} \cup {<<t, u>> : t \in ReplaceTagPool, u \in ReplaceTagPool}

ApplyReplaceRule ==
    \E rule \in ReplaceRulePool : \E tags \in ReplaceTagLists : Apply(rule, tags)

NextReplace == ApplyReplaceRule

SpecReplace == Init /\ [][NextReplace]_vars

\* s of a pattern `s||r`, read off the rules of the pool
SourceOf(rule) ==
    CASE rule = ReplaceAB     -> <<"a">>
      [] rule = ReplaceRaw    -> <<"A", " ", "b">>
      [] rule = ReplacePadded -> <<"a">>

\* r of a pattern `s||r`
TargetOf(rule) ==
    CASE rule = ReplaceAB     -> <<"b">>
      [] rule = ReplaceRaw    -> <<"c">>
      [] rule = ReplacePadded -> <<"b">>

ReplaceApplied ==
    /\ last.op = "apply"
    /\ last.arg.rule.filter_type = "replace"
    /\ last.arg.rule.enabled

\* C21: a REPLACE rule of pattern `s||r` (s and r without surrounding
\* whitespace) turns every tag that is s, character for character, into r
\* and leaves every other tag as it is at its position; the output is as
\* long as the input.
C21_ReplaceExact ==
    ReplaceApplied =>
        LET tags == last.arg.tags IN
        /\ last.exc = "none"
        /\ Len(last.out) = Len(tags)
        /\ \A i \in 1..Len(tags) :
              last.out[i] = IF tags[i] = SourceOf(last.arg.rule)
                            THEN TargetOf(last.arg.rule)
                            ELSE tags[i]

\* `A b` is replaced and the tag that differs from it only in case stays
C21_Witness ==
    /\ ReplaceApplied
    /\ last.arg.rule = ReplaceRaw
    /\ last.arg.tags = <<<<"A", " ", "b">>, <<"a", " ", "b">>>>
    /\ last.out = <<<<"c">>, <<"a", " ", "b">>>>

-----------------------------------------------------------------------------
(* PLAIN_KEYWORD rules, each filter applied on its own.                    *)

\* plain keyword `a_b`
KeywordAB == FilterRule("plain_keyword", <<"a", "_", "b">>, 0, TRUE)
\* plain keyword `A`: no normalized tag has an upper-case letter
KeywordUpperA == FilterRule("plain_keyword", <<"A">>, 0, TRUE)

KeywordRulePool == {KeywordAB, KeywordB, KeywordUpperA}

KeywordTagPool ==
    {<<"a", "_", "b">>, <<"A", "_", "B">>, <<"a", " ", "b">>, <<"A", " ", "B">>,
     <<" ", "a", " ", "b", "\t">>, <<"x", "A", "_", "b", "x">>, <<"a", "b">>,
     <<"a", "\t", "b">>, <<"c">>}

\* the lists of one tag and of two tags
KeywordTagLists ==
    {<<tag>> : tag \in KeywordTagPool} \cup {<<t, u>> : t \in KeywordTagPool, u \in KeywordTagPool}

ApplyKeywordRule ==
    \E rule \in KeywordRulePool : \E tags \in KeywordTagLists : Apply(rule, tags)

NextKeyword == ApplyKeywordRule

SpecKeyword == Init /\ [][NextKeyword]_vars

\* the normalized form, character by character: the characters from the
\* first to the last that is not whitespace, each lower-cased, a space
\* turned into an underscore
NormalForm(tag) ==
    LET inner == {i \in 1..Len(tag) : tag[i] \notin Whitespace} IN
    IF inner = {} THEN <<>>
    ELSE LET lo == CHOOSE i \in inner : \A j \in inner : i <= j
             hi == CHOOSE i \in inner : \A j \in inner : i >= j
         IN  [i \in 1..(hi - lo + 1) |->
                 IF tag[lo + i - 1] = " " THEN "_" ELSE LowerChar(tag[lo + i - 1])]

\* p occurs in s
OccursIn(p, s) == \E i \in 1..(Len(s) - Len(p) + 1) : SubSeq(s, i, i + Len(p) - 1) = p

KeywordApplied ==
    /\ last.op = "apply"
    /\ last.arg.rule.filter_type = "plain_keyword"
    /\ last.arg.rule.enabled

\* C22: a PLAIN_KEYWORD rule of pattern p removes exactly the tags whose
\* normalized form (surrounding whitespace trimmed, lower-cased, spaces
\* turned into underscores) contains p; the rule `a_b` removes `A_B`, `a b`
\* and `A B`.
C22_KeywordNormalized ==
    KeywordApplied =>
        LET tags == last.arg.tags
            p    == last.arg.rule.pattern
        IN  /\ last.exc = "none"
            /\ last.out = SelectSeq(tags, LAMBDA tag : ~OccursIn(p, NormalForm(tag)))
            /\ last.arg.rule = KeywordAB =>
                  \A i \in 1..Len(last.out) :
                      last.out[i] \notin {<<"A", "_", "B">>, <<"a", " ", "b">>, <<"A", " ", "B">>}

\* the variants in case and spacing of `a_b` are removed, `ab` stays
C22_Witness ==
    /\ KeywordApplied
    /\ last.arg.rule = KeywordAB
    /\ last.arg.tags = <<<<"A", " ", "B">>, <<"a", "b">>>>
    /\ last.out = <<<<"a", "b">>>>

-----------------------------------------------------------------------------
(* Group filters among single-tag filters of other priorities.             *)

\* plain keyword `a`, of the highest priority
KeywordA_First == FilterRule("plain_keyword", <<"a">>, 2, TRUE)
\* group: `a` and `c` together, of the lowest priority
GroupAC_Last == GroupFilterRule_from_list(<<<<"a">>, <<"c">>>>, 0, TRUE)

OrderRulePool == {KeywordA_First, ReplaceAB, GroupAC_Last, GroupAC}

OrderTagPool == {<<"a">>, <<"c">>, <<"d">>}

NewOrdered == \E rs \in SeqsUpTo(OrderRulePool, MaxRules) : New(rs, "standard", 0)

FilterOrderedTags == \E tags \in SeqsUpTo(OrderTagPool, MaxTags) : FilterTags(tags)

NextOrder ==
    \/ NewOrdered
    \/ FilterOrderedTags

SpecOrder == Init /\ [][NextOrder]_vars

IsGroup(f) == f.rule.filter_type = "group"

\* C23: in filter_tags every enabled group filter is applied before any
\* single-tag filter, whatever the priorities of the rules: no enabled
\* single-tag filter stands ahead of an enabled group filter in the order
\* of application.
C23_GroupsFirst ==
    pc = "ready" =>
        \A i \in 1..Len(filters) : \A j \in (i + 1)..Len(filters) :
            ~(/\ is_enabled(filters[i])
              /\ is_enabled(filters[j])
              /\ ~IsGroup(filters[i])
              /\ IsGroup(filters[j]))

-----------------------------------------------------------------------------
(* config.py: the text-file loader.  A line of the file becomes a          *)
(* FilterRuleConfig and, through to_filter_rule, the FilterRule the engine *)
(* is given.                                                               *)

\* FilterRuleConfig(filter_type = ..., pattern = ..., priority = ...,
\* replacement = ...): the field validators; what they raise reaches the
\* caller as pydantic's ValidationError
FilterRuleConfig(filter_type, pattern, priority, replacement) ==
    IF filter_type \notin FilterType THEN [ok |-> FALSE, exc |-> "ValidationError"]
    ELSE IF priority < 0 THEN [ok |-> FALSE, exc |-> "ValidationError"]
    ELSE [ok |-> TRUE, none |-> FALSE, filter_type |-> filter_type, pattern |-> pattern,
          priority |-> priority, replacement |-> replacement, enabled |-> TRUE]

\* FilterRuleConfig.to_filter_rule
to_filter_rule(config) ==
    [cls |-> "FilterRule", filter_type |-> config.filter_type, pattern |-> config.pattern,
     patterns |-> <<>>, priority |-> config.priority, replacement |-> config.replacement,
     enabled |-> config.enabled]

\* ConfigLoader._parse_text_line(line, default_priority): a configuration,
\* None for a blank line ([ok, none |-> TRUE]), or the exception
_parse_text_line(line, default_priority) ==
    Bind(strip(line), LAMBDA stripped :
        IF stripped = <<>> THEN [ok |-> TRUE, none |-> TRUE]
        ELSE IF Contains(Delimiter, stripped)
        THEN LET at          == FirstIndex(stripped, Delimiter)
                 pattern     == strip(SubSeq(stripped, 1, at - 1))
                 replacement == strip(SubSeq(stripped, at + 2, Len(stripped)))
             IN  IF pattern = <<>> \/ replacement = <<>>
                 THEN [ok |-> FALSE, exc |-> "ValueError"]
                 ELSE FilterRuleConfig("replace", pattern, default_priority, replacement)
        ELSE IF Head(stripped) = "/" /\ stripped[Len(stripped)] = "/" /\ Len(stripped) >= 2
        THEN LET pattern == SubSeq(stripped, 2, Len(stripped) - 1) IN
             IF pattern = <<>> THEN [ok |-> FALSE, exc |-> "ValueError"]
             ELSE FilterRuleConfig("regex", pattern, default_priority, None)
        ELSE FilterRuleConfig("plain_keyword", stripped, default_priority, None))

\* load_from_text on a file of the one line, then to_filter_rules: the list
\* of rules read, empty for a blank line and for a comment; what the line
\* parser or a validator raises is raised again as a ValueError
ParseTextLine(line, default_priority) ==
    /\ pc = "new"
    /\ LET args   == [line |-> line, default_priority |-> default_priority]
           config == _parse_text_line(line, default_priority)
       IN  last' = IF strip(line) = <<>> \/ Head(strip(line)) = "#"
                   THEN Call("load_from_text", args, <<>>, "none")
                   ELSE IF ~config.ok THEN Call("load_from_text", args, <<>>, "ValueError")
                   ELSE IF config.none THEN Call("load_from_text", args, <<>>, "none")
                   ELSE Call("load_from_text", args, <<to_filter_rule(config)>>, "none")
    /\ UNCHANGED <<pc, variant, rules, ruleIds, filters, batch_size, stats, hist>>

\* an engine is built from the rules just read
NewFromLine ==
    /\ last.op = "load_from_text"
    /\ last.exc = "none"
    /\ last.out # <<>>
    /\ New(last.out, "standard", 0)

TextLinePool ==
    {<<"a", "|", "|", "b">>, <<" ", "a", " ", "|", "|", " ", "b", " ">>,
     <<"c", "|", "|", "a">>, <<"a", "|", "|", "b", "|", "|", "c">>,
     <<"|", "|", "b">>, <<"a", "|", "|">>,
     <<"/", "c", "$", "/">>, <<"/", "/">>, <<"/">>,
     <<"a">>, <<" ", "b", "\n">>, <<>>, <<" ">>, <<"#", "a">>}

DefaultPriorities == {-1, 0, 1}

ReadTextLine ==
    \E line \in TextLinePool : \E default_priority \in DefaultPriorities :
        ParseTextLine(line, default_priority)

FilterTextTags == \E tags \in SeqsUpTo(TagPool, MaxTags) : FilterTags(tags)

NextText ==
    \/ ReadTextLine
    \/ NewFromLine
    \/ FilterTextTags

SpecText == Init /\ [][NextText]_vars

\* the form the text loader gives a line `s||r`: kind replace, the pattern
\* holding s alone, the replacement field holding r
IsLoaderReplacement(rule) ==
    /\ rule.cls = "FilterRule"
    /\ rule.filter_type = "replace"
    /\ rule.enabled
    /\ rule.replacement # None
    /\ ~Contains(Delimiter, rule.pattern)

\* C24: a replacement rule in the form the text loader produces is honoured
\* by the engine: the engine built from that rule alone returns from
\* filter_tags the input with every tag equal to the rule's pattern s
\* replaced by the rule's replacement r.
C24_LoaderReplacementHonoured ==
    (FilterTagsReturned /\ Len(rules) = 1 /\ IsLoaderReplacement(rules[1])) =>
        last.out = [i \in 1..Len(last.arg) |->
                       IF last.arg[i] = rules[1].pattern THEN rules[1].replacement
                       ELSE last.arg[i]]

-----------------------------------------------------------------------------
(* The optimized stream against filter_tags on the whole input, under      *)
(* SpecOpt.                                                                *)

NoGroupFilter(fs) == \A i \in 1..Len(fs) : fs[i].rule.filter_type # "group"

\* C25, as amended: for a rule set without GROUP rules, every batch size
\* b >= 1 and every input, the tags the optimized stream yields are
\* filter_tags of the whole input list.
C25_StreamAgreesWithoutGroups ==
    (StreamReturned /\ batch_size >= 1 /\ NoGroupFilter(filters)) =>
        filter_tags(filters, last.arg) = [ok |-> TRUE, tags |-> last.out]

\* three tags in chunks of two, replaced and removed tag by tag
C25_Witness ==
    /\ StreamReturned
    /\ batch_size = 2
    /\ RulesOf(filters) = <<ReplaceAB, KeywordB>>
    /\ last.arg = <<<<"a">>, <<"c">>, <<"a">>>>
    /\ last.out = <<<<"c">>>>

\* C25, as claimed: for every rule set, GROUP rules included, every batch
\* size b >= 1 and every input, the tags the optimized stream yields are
\* filter_tags of the whole input list.
C25_StreamAgrees ==
    (StreamReturned /\ batch_size >= 1) =>
        filter_tags(filters, last.arg) = [ok |-> TRUE, tags |-> last.out]

-----------------------------------------------------------------------------
(* add_rule(r) followed at once by remove_rule(r), under SpecManage.  In   *)
(* the state between the two calls the last call is the add_rule, and it   *)
(* took effect exactly when a filter could be built for r.                 *)

\* the rule list, and the filters, as they were before the add_rule that
\* is the last call
RulesBeforeAdd ==
    IF Buildable(last.arg) THEN SubSeq(rules, 1, Len(rules) - 1) ELSE rules

FiltersBeforeAdd ==
    IF Buildable(last.arg) THEN SelectSeq(filters, LAMBDA f : f.id # hist.supplied)
    ELSE filters

\* add_rule of a rule a filter can be built for puts the rule at the end of
\* the rule list and one new filter among the others, which keep their
\* order; add_rule of any other rule changes nothing
AddRuleEffect ==
    last'.op = "add_rule" =>
        IF Buildable(last'.arg)
        THEN /\ rules' = Append(rules, last'.arg)
             /\ SelectSeq(filters', LAMBDA f : f.id # hist'.supplied) = filters
             /\ Len(filters') = Len(filters) + 1
        ELSE rules' = rules /\ filters' = filters

\* remove_rule(r) is called right after add_rule(r)
RemovedRightAfterAdd ==
    /\ pc = "ready"
    /\ last.op = "add_rule"
    /\ last'.op = "remove_rule"
    /\ last'.arg = last.arg

RoundTrip ==
    /\ rules' = RulesBeforeAdd
    /\ RulesOf(filters') = RulesOf(FiltersBeforeAdd)

\* C26, as amended: when the engine holds no rule equal to r, add_rule(r)
\* followed at once by remove_rule(r) leaves the rule list and the order of
\* the filters as they were before the two calls.
C26_AddRemoveRoundTripIfNew ==
    [][/\ AddRuleEffect
       /\ (RemovedRightAfterAdd
             /\ \A i \in 1..Len(RulesBeforeAdd) : RulesBeforeAdd[i] # last.arg)
             => RoundTrip]_vars

\* a rule was added to, and removed from, an engine that holds two other rules
C26_Witness ==
    /\ pc = "ready"
    /\ last.op = "remove_rule"
    /\ last.arg = KeywordB
    /\ rules = <<ReplaceAB, DisabledC>>
    /\ ruleIds = <<1, 2>>
    /\ hist.supplied = 3
    /\ RulesOf(filters) = <<ReplaceAB>>

\* C26, as claimed: for every engine state and every rule r, also when the
\* engine already holds a rule equal to r, add_rule(r) followed at once by
\* remove_rule(r) leaves the rule list and the order of the filters as they
\* were before the two calls.
C26_AddRemoveRoundTrip ==
    [][/\ AddRuleEffect
       /\ RemovedRightAfterAdd => RoundTrip]_vars

-----------------------------------------------------------------------------
(* The filter list kept by add_rule and remove_rule against the filter     *)
(* list of a new engine.                                                   *)

\* rules of three priorities, two of them of the same one, and a disabled rule
RebuildRulePool == {DropB_High, ReplaceAB, KeywordB, DisabledC}

NewToRebuild == \E rs \in SeqsUpTo(RebuildRulePool, MaxRules) : New(rs, "standard", 0)

AddToRebuild == \E rule \in RebuildRulePool : AddRule(rule)

RemoveToRebuild == \E rule \in RebuildRulePool : RemoveRule(rule)

NextRebuild ==
    \/ NewToRebuild
    \/ AddToRebuild
    \/ RemoveToRebuild

SpecRebuild == Init /\ [][NextRebuild]_vars

\* every rule is of a registered kind and its pattern is accepted
ValidRules(rs) == \A i \in 1..Len(rs) : create_filter(rs[i]).ok

\* C27: after any add_rule and remove_rule calls on an engine whose rules
\* are of registered kinds with valid patterns, the filter list is, rule
\* for rule and in the same order, the filter list of a new engine built
\* from the engine's rule list, and both give the same filter_tags result
\* for every input.
C27_IncrementalIsRebuilt ==
    (pc = "ready" /\ ValidRules(rules)) =>
        LET fresh == TagFilterEngine_init(rules) IN
        /\ fresh.ok
        /\ RulesOf(filters) = RulesOf(fresh.filters)
        /\ \A tags \in SeqsUpTo(PipelineTagPool, MaxTags) :
               filter_tags(filters, tags) = filter_tags(fresh.filters, tags)

\* the constructor's rule was removed after two rules had been added, the
\* first of them of a higher priority than the constructor's: the filters
\* are those of the two added rules, the one of higher priority first
C27_Witness ==
    /\ pc = "ready"
    /\ last.op = "remove_rule"
    /\ last.arg = KeywordB
    /\ rules = <<ReplaceAB, DropB_High>>
    /\ ruleIds = <<2, 3>>
    /\ RulesOf(filters) = <<DropB_High, ReplaceAB>>

-----------------------------------------------------------------------------
(* A group filter behind filters of higher priority, under SpecOrder.      *)

\* the enabled filters of fs in the order the priorities give them: higher
\* priority first, and among equal priorities the rule supplied first
Ranked(fs) ==
    LET S == {fs[i] : i \in {j \in 1..Len(fs) : is_enabled(fs[j])}} IN
    CHOOSE seq \in [1..Cardinality(S) -> S] :
        /\ \A i \in 1..Len(seq) : \A j \in (i + 1)..Len(seq) :
              /\ seq[i] # seq[j]
              /\ \/ get_priority(seq[i]) > get_priority(seq[j])
                 \/ /\ get_priority(seq[i]) = get_priority(seq[j])
                    /\ seq[i].id < seq[j].id

\* every pattern is found in some tag of the list
AllFound(patterns, list) ==
    \A p \in 1..Len(patterns) : \E i \in 1..Len(list) : FoundIn(patterns[p], list[i])

-----------------------------------------------------------------------------
(* filter_tags with rules of the six kinds.                                *)

SixKindsRulePool == {KeywordB, WildcardA, RegexC, GroupAC, ReplaceAB, CaptureAB}

NewOfSixKinds == \E rs \in SeqsUpTo(SixKindsRulePool, MaxRules) : New(rs, "standard", 0)

FilterSixKindsTags == \E tags \in SeqsUpTo(PipelineTagPool, MaxTags) : FilterTags(tags)

NextSixKinds ==
    \/ NewOfSixKinds
    \/ FilterSixKindsTags

SpecSixKinds == Init /\ [][NextSixKinds]_vars

\* the tag, and what the replacement filters of fs, in their order, make of it
RECURSIVE Rewrites(_, _)
Rewrites(fs, tag) ==
    IF fs = <<>> THEN {tag}
    ELSE IF IsReplacementFilter(Head(fs)) /\ is_enabled(Head(fs))
    THEN Rewrites(Tail(fs), tag) \cup Rewrites(Tail(fs), apply(Head(fs), <<tag>>)[1])
    ELSE Rewrites(Tail(fs), tag)

\* out is made of tags of T, or of what the replacement filters make of
\* them, taken at increasing positions of T
InInputOrder(fs, T, out) ==
    \E at \in [1..Len(out) -> 1..Len(T)] :
        /\ \A k \in 1..(Len(out) - 1) : at[k] < at[k + 1]
        /\ \A k \in 1..Len(out) : out[k] \in Rewrites(fs, T[at[k]])

\* out is T with some of its tags left out
IsSubsequence(T, out) ==
    \E at \in [1..Len(out) -> 1..Len(T)] :
        /\ \A k \in 1..(Len(out) - 1) : at[k] < at[k + 1]
        /\ \A k \in 1..Len(out) : out[k] = T[at[k]]

\* C29: for rules of the six built-in kinds and every tag list T,
\* filter_tags(T) is not longer than T and its tags stand in the order of
\* the tags of T they come from; without an enabled REPLACE or
\* REPLACE_CAPTURE rule the output is a subsequence of T; and filter_tags
\* leaves the engine's rules and filters as they were.
C29_NeverLongerInOrder ==
    /\ [](FilterTagsReturned =>
            /\ Len(last.out) <= Len(last.arg)
            /\ InInputOrder(filters, last.arg, last.out)
            /\ (\A i \in 1..Len(filters) : ~IsReplacementFilter(filters[i]))
                  => IsSubsequence(last.arg, last.out))
    /\ [][(pc = "ready" /\ last'.op = "filter_tags") =>
            /\ rules' = rules
            /\ filters' = filters]_vars

\* the regular expression removed `c`, and `a` came out as `b`
C29_Witness ==
    /\ FilterTagsReturned
    /\ rules = <<CaptureAB, RegexC>>
    /\ last.arg = <<<<"c">>, <<"a">>>>
    /\ last.out = <<<<"b">>>>

-----------------------------------------------------------------------------
(* The counters of the optimized engine over its life, under SpecOpt.      *)

FilteringCalls == {"filter_tags", "filter_tags_batch", "filter_tags_stream"}

\* C30: on an optimized engine 0 <= total_filtered <= total_processed in
\* every state; both counters are 0 at creation; filter_tags,
\* filter_tags_batch and filter_tags_stream never lower them; a counter
\* that is not 0 becomes 0 only by reset_stats, which zeroes both and leaves
\* rules and filters unchanged; get_performance_stats leaves the counters
\* unchanged.
C30_CountersLifecycle ==
    /\ []((pc = "ready" /\ variant = "optimized") =>
            /\ 0 <= stats.total_filtered
            /\ stats.total_filtered <= stats.total_processed)
    /\ [][/\ (pc = "new" /\ pc' = "ready") => stats' = NewStats
          /\ (pc = "ready" /\ last'.op \in FilteringCalls) =>
                /\ stats'.total_processed >= stats.total_processed
                /\ stats'.total_filtered >= stats.total_filtered
          /\ (pc = "ready" /\ stats.total_processed > 0 /\ stats'.total_processed = 0)
                => last'.op = "reset_stats"
          /\ (pc = "ready" /\ stats.total_filtered > 0 /\ stats'.total_filtered = 0)
                => last'.op = "reset_stats"
          /\ (pc = "ready" /\ last'.op = "reset_stats") =>
                /\ stats' = NewStats
                /\ rules' = rules
                /\ filters' = filters
          /\ (pc = "ready" /\ last'.op = "get_performance_stats") => stats' = stats]_vars

\* two batches have brought the counters to four processed and two removed
C30_Witness ==
    /\ pc = "ready"
    /\ variant = "optimized"
    /\ last.op = "filter_tags_batch"
    /\ Len(last.arg) = 2
    /\ stats = [total_processed |-> 4, total_filtered |-> 2]

=============================================================================
